---- MODULE Spec2Model ----
(***************************************************************************)
(* Model of the analysis pipeline of fuck-u-code: the metric analyzers     *)
(* (pkg/metrics), the per-file analysis and the concurrent directory       *)
(* analysis (pkg/analyzer), and the aggregation into a project result.     *)
(*                                                                         *)
(* Scores and weights are float64 in the program.  They are modelled as    *)
(* exact rationals <<numerator, denominator>> in lowest terms with a       *)
(* positive denominator, so that equal values are equal tuples.            *)
(***************************************************************************)
EXTENDS Integers, Sequences, FiniteSets, TLC

(* ------------------------------------------------------------------ *)
(* Bounds of the model                                                 *)
(* ------------------------------------------------------------------ *)
\* longest file list of a run whose files are told apart
MaxFiles == 3
\* how many files more than the concurrency limit a pool run may have
PoolExcess == 1
\* longest function list of a parse result
MaxFuncs == 2
\* how many times the directory analysis is run over the same files
MaxRuns == 2

\* longest list of declarations of a Go file given to the duplication metric
MaxDecls == 3

NULL == "null"

\* the value of a variable that holds no result yet
Nil == [nil |-> TRUE]

(* ------------------------------------------------------------------ *)
(* Evaluation helpers                                                  *)
(* ------------------------------------------------------------------ *)
\* Bind(v, F) is F(v), with v evaluated once before F is applied
Pick(S) == CHOOSE x \in S : TRUE
Bind(v, F(_)) == Pick({F(x) : x \in {v}})
Bind2(v, w, F(_, _)) == Pick({F(x, y) : x \in {v}, y \in {w}})

\* the sequences that list every element of the set S once
RECURSIVE Orders(_)
Orders(S) ==
    Bind(S, LAMBDA T :
        IF T = {} THEN {<<>>}
        ELSE UNION {{<<x>> \o o : o \in Orders(T \ {x})} : x \in T})

(* ------------------------------------------------------------------ *)
(* Rational arithmetic standing for float64                            *)
(* ------------------------------------------------------------------ *)
Abs(x) == IF x < 0 THEN -x ELSE x

RECURSIVE Gcd(_, _)
Gcd(a, b) ==
    Bind2(a, b, LAMBDA x, y : IF y = 0 THEN x ELSE Gcd(y, x % y))

\* the rational n/d in lowest terms, d # 0
Frac(n, d) ==
    Bind2(n, d, LAMBDA x, y :
        Bind2(Gcd(Abs(x), Abs(y)), IF y < 0 THEN -1 ELSE 1, LAMBDA g, s :
            <<(s * x) \div g, (s * y) \div g>>))

R(n) == <<n, 1>>
RAdd(a, b) ==
    Bind2(a, b, LAMBDA x, y : Frac(x[1] * y[2] + y[1] * x[2], x[2] * y[2]))
RSub(a, b) ==
    Bind2(a, b, LAMBDA x, y : Frac(x[1] * y[2] - y[1] * x[2], x[2] * y[2]))
RMul(a, b) ==
    Bind2(a, b, LAMBDA x, y : Frac(x[1] * y[1], x[2] * y[2]))
RDiv(a, b) ==
    Bind2(a, b, LAMBDA x, y : Frac(x[1] * y[2], x[2] * y[1]))
RLe(a, b) == Bind2(a, b, LAMBDA x, y : x[1] * y[2] <= y[1] * x[2])
RLt(a, b) == Bind2(a, b, LAMBDA x, y : x[1] * y[2] < y[1] * x[2])
RGe(a, b) == RLe(b, a)
RGt(a, b) == RLt(b, a)
RZero == R(0)
ROne == R(1)
InUnit(a) == Bind(a, LAMBDA x : RLe(RZero, x) /\ RLe(x, ROne))
\* a rational cut off at 1
AtMostOne(a) == Bind(a, LAMBDA x : IF RGt(x, ROne) THEN ROne ELSE x)

\* sum of the first k entries of a sequence of rationals
RECURSIVE RSumTo(_, _)
RSumTo(s, k) == IF k = 0 THEN RZero ELSE RAdd(s[k], RSumTo(s, k - 1))
RSumSeq(s) == Bind(s, LAMBDA x : RSumTo(x, Len(x)))

\* sum of the first k entries of a sequence of integers
RECURSIVE SumTo(_, _)
SumTo(s, k) == IF k = 0 THEN 0 ELSE s[k] + SumTo(s, k - 1)
SumSeq(s) == Bind(s, LAMBDA x : SumTo(x, Len(x)))

Min(a, b) == IF a < b THEN a ELSE b

(* ------------------------------------------------------------------ *)
(* Languages and parse results                                         *)
(* ------------------------------------------------------------------ *)
Go == "go"
Python == "python"
Unsupported == "unsupported"

\* A parse result is a record
\*   [Language, TotalLines, CommentLines, Functions, ASTRoot]
\* Functions is a sequence of [Name, StartLine, EndLine, Complexity,
\* Parameters]; ASTRoot is NoAST (nil), a Go file [kind |-> "go_file",
\* FuncDecls, GlobalVars, PtrParams] or a tree of another type
\* [kind |-> "other"].
\* FuncDecls is the sequence of [Name, Complexity] of the function
\* declarations of the Go file, GlobalVars the number of package level
\* variables, PtrParams the number of named pointer parameters and
\* Undocumented the sequence of <<"func" or "type", name>> of the exported
\* functions and types without a doc comment.

NoAST == [kind |-> "nil"]

IsNil(file) == file.kind = "nil"

\* the Go file of a parse result, nil when there is none
ExtractGoAST(pr) ==
    IF pr.Language # Go THEN NoAST
    ELSE IF IsNil(pr.ASTRoot) THEN NoAST
    ELSE IF pr.ASTRoot.kind # "go_file" THEN NoAST
    ELSE pr.ASTRoot

\* the content the metrics fall back to: one newline per line
NewlineContent(pr) == [i \in 1..pr.TotalLines |-> "\n"]

(* ------------------------------------------------------------------ *)
(* Cyclomatic complexity metric                                        *)
(* ------------------------------------------------------------------ *)
CyclomaticWeight == <<1, 4>>

\* does the character sequence sub occur in s at position i
OccursAt(s, sub, i) ==
    /\ i + Len(sub) - 1 <= Len(s)
    /\ \A k \in 1..Len(sub) : s[i + k - 1] = sub[k]

\* the first position from i on at which sub occurs in s, 0 if there is none
IndexFrom(s, sub, i) ==
    Bind({j \in i..Len(s) : OccursAt(s, sub, j)}, LAMBDA P :
        IF P = {} THEN 0 ELSE CHOOSE j \in P : \A k \in P : j <= k)

\* strings.Count: the number of non-overlapping occurrences of sub in s
\* from position i on
RECURSIVE CountFrom(_, _, _)
CountFrom(s, sub, i) ==
    Bind(IndexFrom(s, sub, i), LAMBDA j :
        IF j = 0 THEN 0 ELSE 1 + CountFrom(s, sub, j + Len(sub)))

controlKeywords ==
    << <<"i", "f">>, <<"f", "o", "r">>, <<"w", "h", "i", "l", "e">>,
       <<"s", "w", "i", "t", "c", "h">>, <<"c", "a", "s", "e">>,
       <<"c", "a", "t", "c", "h">>, <<"&", "&">>, <<"|", "|">>, <<"?">>,
       <<"f", "o", "r", "e", "a", "c", "h">>, <<"e", "l", "i", "f">>,
       <<"e", "x", "c", "e", "p", "t">>, <<"t", "r", "y">>,
       <<"e", "l", "s", "e", " ", "i", "f">> >>

calculateTextBasedComplexity(content) ==
    Bind(content, LAMBDA c :
        1 + SumSeq([k \in 1..Len(controlKeywords) |->
                       CountFrom(c, controlKeywords[k], 1)]))

\* calculateScore without the cut at 1.0 of its last branch
CyclomaticScoreUnclamped(avgComplexity) ==
    Bind(avgComplexity, LAMBDA avg :
        IF RLe(avg, R(5)) THEN RZero
        ELSE IF RLe(avg, R(10))
            THEN RMul(RDiv(RSub(avg, R(5)), R(5)), <<1, 2>>)
        ELSE IF RLe(avg, R(20))
            THEN RAdd(<<1, 2>>, RMul(RDiv(RSub(avg, R(10)), R(10)), <<3, 10>>))
        ELSE RAdd(<<4, 5>>, RMul(RDiv(RSub(avg, R(20)), R(10)), <<1, 5>>)))

\* calculateScore with 2 instead of 5 as the bound of its first case
CyclomaticScoreLowThreshold(avgComplexity) ==
    Bind(avgComplexity, LAMBDA avg :
        IF RLe(avg, R(2)) THEN RZero
        ELSE IF RLe(avg, R(10))
            THEN RMul(RDiv(RSub(avg, R(5)), R(5)), <<1, 2>>)
        ELSE IF RLe(avg, R(20))
            THEN RAdd(<<1, 2>>, RMul(RDiv(RSub(avg, R(10)), R(10)), <<3, 10>>))
        ELSE AtMostOne(RAdd(<<4, 5>>,
                            RMul(RDiv(RSub(avg, R(20)), R(10)), <<1, 5>>))))

CyclomaticCalculateScore(avgComplexity) ==
    Bind(avgComplexity, LAMBDA avg :
        IF RLe(avg, R(5)) THEN RZero
        ELSE IF RLe(avg, R(10))
            THEN RMul(RDiv(RSub(avg, R(5)), R(5)), <<1, 2>>)
        ELSE IF RLe(avg, R(20))
            THEN RAdd(<<1, 2>>, RMul(RDiv(RSub(avg, R(10)), R(10)), <<3, 10>>))
        ELSE AtMostOne(RAdd(<<4, 5>>,
                            RMul(RDiv(RSub(avg, R(20)), R(10)), <<1, 5>>))))

\* the issue of one function of complexity c, as a sequence of 0 or 1 issues
ComplexityIssue(name, c) ==
    IF c > 15 THEN << <<"high_complexity", name, c>> >>
    ELSE IF c > 10 THEN << <<"medium_complexity", name, c>> >>
    ELSE <<>>

\* the issues of the functions fs[k], fs[k+1], ... in this order
RECURSIVE ComplexityIssues(_, _)
ComplexityIssues(fs, k) ==
    IF k > Len(fs) THEN <<>>
    ELSE ComplexityIssue(fs[k].Name, fs[k].Complexity)
             \o ComplexityIssues(fs, k + 1)

\* the issue of a file without functions whose text has complexity text
TextIssues(text) ==
    IF text > 100 THEN << <<"file_high_complexity", "", text>> >>
    ELSE IF text > 50 THEN << <<"file_medium_complexity", "", text>> >>
    ELSE <<>>

\* analyzeComplexity scoring the complexity of the last function instead
\* of the average over the functions
analyzeComplexityLastFunction(file, content, pr) ==
    Bind(IF ~IsNil(file) THEN file.FuncDecls ELSE pr.Functions, LAMBDA fs :
        IF IsNil(file) /\ Len(fs) = 0
        THEN Bind(calculateTextBasedComplexity(content), LAMBDA complexity :
                [score |-> CyclomaticCalculateScore(Frac(complexity, 1)),
                 issues |-> TextIssues(complexity)])
        ELSE [score |-> IF Len(fs) = 0 THEN RZero
                        ELSE CyclomaticCalculateScore(
                                 Frac(fs[Len(fs)].Complexity, 1)),
              issues |-> ComplexityIssues(fs, 1)])

\* [score, issues] of the complexity analysis: over the function
\* declarations of the Go file if there is one, else over the functions of
\* the parse result, else over the text
analyzeComplexity(file, content, pr) ==
    Bind(IF ~IsNil(file) THEN file.FuncDecls ELSE pr.Functions, LAMBDA fs :
        IF IsNil(file) /\ Len(fs) = 0
        THEN Bind(calculateTextBasedComplexity(content), LAMBDA complexity :
                [score |-> CyclomaticCalculateScore(Frac(complexity, 1)),
                 issues |-> TextIssues(complexity)])
        ELSE Bind2(Len(fs), SumSeq([i \in 1..Len(fs) |-> fs[i].Complexity]),
                LAMBDA funcCount, totalComplexity :
                [score |-> IF funcCount = 0 THEN RZero
                           ELSE CyclomaticCalculateScore(
                                    Frac(totalComplexity, funcCount)),
                 issues |-> ComplexityIssues(fs, 1)]))

CyclomaticAnalyze(m, pr) ==
    Bind(analyzeComplexity(ExtractGoAST(pr), NewlineContent(pr), pr), LAMBDA a :
        [Score |-> a.score, Issues |-> a.issues, Weight |-> m.Weight])

(* ------------------------------------------------------------------ *)
(* Function length metric                                              *)
(* ------------------------------------------------------------------ *)
FunctionLengthWeight == <<3, 20>>

calculateComplexityScore(avgComplexity) ==
    Bind(avgComplexity, LAMBDA avg :
        IF RLe(avg, R(3)) THEN RZero
        ELSE IF RLe(avg, R(5)) THEN <<1, 5>>
        ELSE IF RLe(avg, R(7)) THEN <<2, 5>>
        ELSE IF RLe(avg, R(10)) THEN <<3, 5>>
        ELSE IF RLe(avg, R(15)) THEN <<4, 5>>
        ELSE ROne)

\* [score, issues] of the state analysis of a Go file: every package level
\* variable and every pointer parameter counts as mutable
analyzeStateManagement(file) ==
    Bind2(file.GlobalVars, file.GlobalVars + file.PtrParams,
        LAMBDA globalVars, totalVars :
        [score |-> IF totalVars = 0 THEN RZero
                   ELSE AtMostOne(
                       RAdd(RMul(Frac(globalVars, totalVars), <<3, 5>>),
                            RMul(Frac(totalVars, totalVars), <<2, 5>>))),
         issues |-> [i \in 1..totalVars |->
                       IF i <= globalVars THEN <<"global_var", "", i>>
                       ELSE <<"pointer_param", "", i - globalVars>>]])

LineCount(fn) == fn.EndLine - fn.StartLine + 1

\* the issues of one function, in the order the checks are made
FunctionIssues(fn) ==
    (IF LineCount(fn) > 100 THEN << <<"func_extreme_long", fn.Name, LineCount(fn)>> >>
     ELSE IF LineCount(fn) > 50 THEN << <<"func_too_long", fn.Name, LineCount(fn)>> >>
     ELSE IF LineCount(fn) > 30 THEN << <<"func_long", fn.Name, LineCount(fn)>> >>
     ELSE <<>>)
    \o (IF fn.Complexity > 15 THEN << <<"func_complexity_severe", fn.Name, fn.Complexity>> >>
        ELSE IF fn.Complexity > 10 THEN << <<"func_complexity_high", fn.Name, fn.Complexity>> >>
        ELSE <<>>)
    \o (IF fn.Parameters > 7 THEN << <<"func_params_extreme", fn.Name, fn.Parameters>> >>
        ELSE IF fn.Parameters > 5 THEN << <<"func_params_many", fn.Name, fn.Parameters>> >>
        ELSE <<>>)

\* the issues of the functions fs[k], fs[k+1], ... in this order
RECURSIVE AllFunctionIssues(_, _)
AllFunctionIssues(fs, k) ==
    IF k > Len(fs) THEN <<>>
    ELSE FunctionIssues(fs[k]) \o AllFunctionIssues(fs, k + 1)

\* lengthScore: the share of the long, very long and extremely long
\* functions, weighted 0.3, 0.5 and 0.8
LengthScore(functions) ==
    Bind2(functions, Len(functions), LAMBDA fs, totalFunctions :
        AtMostOne(
            RAdd(RAdd(RMul(Frac(Cardinality({i \in 1..totalFunctions :
                                   LineCount(fs[i]) > 30 /\ LineCount(fs[i]) <= 50}),
                                totalFunctions), <<3, 10>>),
                      RMul(Frac(Cardinality({i \in 1..totalFunctions :
                                   LineCount(fs[i]) > 50 /\ LineCount(fs[i]) <= 100}),
                                totalFunctions), <<1, 2>>)),
                 RMul(Frac(Cardinality({i \in 1..totalFunctions :
                              LineCount(fs[i]) > 100}),
                           totalFunctions), <<4, 5>>))))

\* [score, issues] of the function analysis
analyzeFunctions(file, pr) ==
    Bind(pr.Functions, LAMBDA functions :
        IF Len(functions) = 0 THEN [score |-> RZero, issues |-> <<>>]
        ELSE Bind2(LengthScore(functions),
                   calculateComplexityScore(
                       Frac(SumSeq([i \in 1..Len(functions) |->
                                       functions[i].Complexity]),
                            Len(functions))),
                LAMBDA lengthScore, complexityScore :
                IF ~IsNil(file)
                THEN Bind(analyzeStateManagement(file), LAMBDA state :
                        [score |-> RAdd(RAdd(RMul(lengthScore, <<1, 2>>),
                                             RMul(complexityScore, <<1, 5>>)),
                                        RMul(state.score, <<3, 10>>)),
                         issues |-> AllFunctionIssues(functions, 1)
                                        \o state.issues])
                ELSE [score |-> RAdd(RMul(lengthScore, <<7, 10>>),
                                     RMul(complexityScore, <<3, 10>>)),
                      issues |-> AllFunctionIssues(functions, 1)]))

FunctionLengthAnalyze(m, pr) ==
    Bind(analyzeFunctions(ExtractGoAST(pr), pr), LAMBDA a :
        [Score |-> a.score, Issues |-> a.issues, Weight |-> m.Weight])

(* ------------------------------------------------------------------ *)
(* Comment ratio metric                                                *)
(* ------------------------------------------------------------------ *)
CommentRatioWeight == <<3, 20>>

CommentCalculateScore(commentRatio) ==
    Bind(commentRatio, LAMBDA ratio :
        IF RGe(ratio, <<1, 4>>) THEN RZero
        ELSE IF RGe(ratio, <<1, 5>>) THEN <<1, 10>>
        ELSE IF RGe(ratio, <<3, 20>>) THEN <<1, 4>>
        ELSE IF RGe(ratio, <<1, 10>>) THEN <<9, 20>>
        ELSE IF RGe(ratio, <<7, 100>>) THEN <<13, 20>>
        ELSE IF RGe(ratio, <<1, 20>>) THEN <<4, 5>>
        ELSE IF RGe(ratio, <<1, 50>>) THEN <<9, 10>>
        ELSE ROne)

\* one issue for every exported function or type without a doc comment
checkGoExportedComments(file) ==
    [i \in 1..Len(file.Undocumented) |->
        <<IF file.Undocumented[i][1] = "func"
          THEN "exported_func_no_comment" ELSE "exported_type_no_comment",
          file.Undocumented[i][2], 0>>]

\* the ratio based issues, the percentage reported as its integer part,
\* followed for a Go file by the issues of its exported declarations
generateIssues(pr, commentRatio) ==
    Bind(commentRatio, LAMBDA ratio :
        (IF RLt(ratio, <<1, 20>>)
            THEN << <<"comment_very_low", "", (100 * ratio[1]) \div ratio[2]>> >>
         ELSE IF RLt(ratio, <<1, 10>>)
            THEN << <<"comment_low", "", (100 * ratio[1]) \div ratio[2]>> >>
         ELSE <<>>)
        \o (IF pr.Language = Go /\ ~IsNil(ExtractGoAST(pr))
            THEN checkGoExportedComments(ExtractGoAST(pr))
            ELSE <<>>))

CommentRatioAnalyze(m, pr) ==
    Bind(IF pr.TotalLines > 0 THEN Frac(pr.CommentLines, pr.TotalLines)
         ELSE RZero, LAMBDA commentRatio :
        [Score |-> CommentCalculateScore(commentRatio),
         Issues |-> generateIssues(pr, commentRatio),
         Weight |-> m.Weight])

(* ------------------------------------------------------------------ *)
(* Code duplication metric (CodeDuplicationMetric)                     *)
(* ------------------------------------------------------------------ *)
\* A Go file is given to this metric as the sequence of its declarations
\* [Name, HasBody, Body]: Body is the sequence of the kinds of the nodes
\* of the function body in the order ast.Inspect visits them.

\* what extractFunctionSignature writes for a node, as characters
SignatureToken(node) ==
    CASE node = "IfStmt" -> <<"i", "f">>
      [] node = "ForStmt" -> <<"f", "o", "r">>
      [] node = "RangeStmt" -> <<"r", "a", "n", "g", "e">>
      [] node = "SwitchStmt" -> <<"s", "w", "i", "t", "c", "h">>
      [] node = "CaseClause" -> <<"c", "a", "s", "e">>
      [] node = "AssignStmt" -> <<"=">>
      [] node = "ReturnStmt" -> <<"r", "e", "t", "u", "r", "n">>
      [] OTHER -> <<>>

RECURSIVE SignatureFrom(_, _)
SignatureFrom(body, k) ==
    IF k > Len(body) THEN <<>>
    ELSE SignatureToken(body[k]) \o SignatureFrom(body, k + 1)

extractFunctionSignature(funcDecl) == SignatureFrom(funcDecl.Body, 1)

\* the positions of the function declarations that have a body
FuncDeclsOf(file) == {i \in 1..Len(file) : file[i].HasBody}

\* similarFunctions: the names of the functions of each signature, in the
\* order of the declarations
SimilarFunctions(file) ==
    Bind(file, LAMBDA f :
        [sig \in {extractFunctionSignature(f[i]) : i \in FuncDeclsOf(f)} |->
            Bind(SelectSeq([i \in 1..Len(f) |-> i], LAMBDA i :
                     f[i].HasBody /\ extractFunctionSignature(f[i]) = sig),
                 LAMBDA ps : [k \in 1..Len(ps) |-> f[ps[k]].Name])])

\* the least length a signature must exceed to count as a duplicate
MinSignature == 10

\* findDuplicatedFunctions ranges over the map of the signatures, whose
\* order is not fixed: the set of [count, issues] it can give
findDuplicatedFunctions(similarFunctions) ==
    Bind(similarFunctions, LAMBDA sf :
        Bind({sig \in DOMAIN sf :
                 Len(sf[sig]) > 1 /\ Len(sig) > MinSignature},
             LAMBDA flagged :
            {[count |-> SumSeq([k \in 1..Len(o) |-> Len(sf[o[k]]) - 1]),
              issues |-> [k \in 1..Len(o) |-> <<"duplicate", sf[o[k]]>>]] :
                o \in Orders(flagged)}))

DuplicationCalculateScore(duplicationRate) ==
    AtMostOne(RAdd(<<2, 5>>, RMul(duplicationRate, R(10))))

\* CodeDuplicationMetric.Analyze: the set of results it can give, each
\* [Score, Issues] with the number of functions and the duplicated count
\* it computed on the way
DuplicationAnalyze(file) ==
    Bind2(Cardinality(FuncDeclsOf(file)),
          findDuplicatedFunctions(SimilarFunctions(file)),
        LAMBDA totalFunctions, found :
        {[Score |-> IF totalFunctions < 3 THEN <<1, 10>>
                    ELSE DuplicationCalculateScore(
                             Frac(d.count, totalFunctions)),
          Issues |-> d.issues,
          totalFunctions |-> totalFunctions,
          duplicatedCount |-> d.count] : d \in found})

(* ------------------------------------------------------------------ *)
(* The metrics of the factory                                          *)
(* ------------------------------------------------------------------ *)
\* a SimpleMetric that finds nothing wrong in any file
SimpleAnalyzeClean(m, pr) ==
    [Score |-> RZero, Issues |-> <<>>, Weight |-> m.Weight]

\* the constant result of the four metrics the factory builds as SimpleMetric
SimpleAnalyze(m, pr) ==
    [Score |-> <<1, 2>>, Issues |-> <<>>, Weight |-> m.Weight]

\* A metric is a record [Name, Kind, Weight, SupportedLanguages]; the
\* factory builds these seven, each supporting every language.
CreateAllMetrics ==
    << [Name |-> "cyclomatic_complexity", Kind |-> "cyclomatic",
        Weight |-> CyclomaticWeight, SupportedLanguages |-> {}],
       [Name |-> "function_length", Kind |-> "function_length",
        Weight |-> FunctionLengthWeight, SupportedLanguages |-> {}],
       [Name |-> "comment_ratio", Kind |-> "comment_ratio",
        Weight |-> CommentRatioWeight, SupportedLanguages |-> {}],
       [Name |-> "error_handling", Kind |-> "simple",
        Weight |-> <<3, 20>>, SupportedLanguages |-> {}],
       [Name |-> "naming_convention", Kind |-> "simple",
        Weight |-> <<1, 10>>, SupportedLanguages |-> {}],
       [Name |-> "code_duplication", Kind |-> "simple",
        Weight |-> <<3, 20>>, SupportedLanguages |-> {}],
       [Name |-> "structure_analysis", Kind |-> "simple",
        Weight |-> <<1, 5>>, SupportedLanguages |-> {}] >>

\* metric.Analyze(parseResult), dispatched on the metric's implementation
MetricAnalyze(metric, pr) ==
    CASE metric.Kind = "cyclomatic" -> CyclomaticAnalyze(metric, pr)
      [] metric.Kind = "function_length" -> FunctionLengthAnalyze(metric, pr)
      [] metric.Kind = "comment_ratio" -> CommentRatioAnalyze(metric, pr)
      [] OTHER -> SimpleAnalyze(metric, pr)

(* ------------------------------------------------------------------ *)
(* Per-file analysis result                                            *)
(* ------------------------------------------------------------------ *)
\* MetricResults is a function from metric names to metric results

\* the sum of Score * Weight (weighted) or of Weight over the entries of mr
\* with a name in names
RECURSIVE SumOver(_, _, _)
SumOver(mr, names, weighted) ==
    Bind(names, LAMBDA ns :
        IF ns = {} THEN RZero
        ELSE Bind(Pick(ns), LAMBDA n :
                RAdd(IF weighted THEN RMul(mr[n].Score, mr[n].Weight)
                     ELSE mr[n].Weight,
                     SumOver(mr, ns \ {n}, weighted))))

\* the sum of Score over the entries of mr with a name in names
RECURSIVE SumOfScores(_, _)
SumOfScores(mr, names) ==
    Bind(names, LAMBDA ns :
        IF ns = {} THEN RZero
        ELSE Bind(Pick(ns), LAMBDA n :
                RAdd(mr[n].Score, SumOfScores(mr, ns \ {n}))))

\* cut a score to the range 0..1
Clamp(finalScore) ==
    Bind(finalScore, LAMBDA x :
        IF RGt(x, ROne) THEN ROne ELSE IF RLt(x, RZero) THEN RZero ELSE x)

\* GetOverallScore adding up the scores without their weights
GetOverallScoreUnweighted(metricResults) ==
    Bind(metricResults, LAMBDA mr :
        IF DOMAIN mr = {} THEN RZero
        ELSE Bind2(SumOfScores(mr, DOMAIN mr), SumOver(mr, DOMAIN mr, FALSE),
                LAMBDA totalScore, totalWeight :
                IF totalWeight = RZero THEN RZero
                ELSE Clamp(RDiv(totalScore, totalWeight))))

GetOverallScore(metricResults) ==
    Bind(metricResults, LAMBDA mr :
        IF DOMAIN mr = {} THEN RZero
        ELSE Bind2(SumOver(mr, DOMAIN mr, TRUE), SumOver(mr, DOMAIN mr, FALSE),
                LAMBDA totalScore, totalWeight :
                IF totalWeight = RZero THEN RZero
                ELSE Clamp(RDiv(totalScore, totalWeight))))

AddMetricResult(metricResults, name, result) ==
    Bind2(metricResults, result, LAMBDA mr, r :
        [n \in DOMAIN mr \cup {name} |-> IF n = name THEN r ELSE mr[n]])

\* the issues of the metric results, taken in the order the names are listed
RECURSIVE IssuesInOrder(_, _, _)
IssuesInOrder(mr, order, k) ==
    IF k > Len(order) THEN <<>>
    ELSE mr[order[k]].Issues \o IssuesInOrder(mr, order, k + 1)

\* GetIssues ranges over a map, whose iteration order is not fixed: the
\* set of issue lists it can return
GetIssues(metricResults) ==
    Bind(metricResults, LAMBDA mr :
        {IssuesInOrder(mr, o, 1) :
            o \in Orders({n \in DOMAIN mr : mr[n].Issues # <<>>})})

(* ------------------------------------------------------------------ *)
(* CodeAnalyzer.AnalyzeFile                                            *)
(* ------------------------------------------------------------------ *)
\* isLanguageSupported with the test for an empty set left out
IsLanguageSupportedStrict(metric, language) ==
    language \in metric.SupportedLanguages

isLanguageSupported(metric, language) ==
    IF metric.SupportedLanguages = {} THEN TRUE
    ELSE language \in metric.SupportedLanguages

\* the loop over the metrics, from the k-th metric on, with the metric
\* results mr recorded so far
RECURSIVE ApplyMetrics(_, _, _, _)
ApplyMetrics(ms, k, pr, mr) ==
    IF k > Len(ms) THEN mr
    ELSE IF ~isLanguageSupported(ms[k], pr.Language)
        THEN ApplyMetrics(ms, k + 1, pr, mr)
    ELSE ApplyMetrics(ms, k + 1, pr,
             AddMetricResult(mr, ms[k].Name, MetricAnalyze(ms[k], pr)))

\* A file is a record [FilePath, Outcome, Parse]: Outcome is "ok",
\* "read_failed" (the file cannot be read) or "parse_failed" (its parser
\* returns an error); Parse is the parse result of its content.
EmptyMap == [n \in {} |-> NULL]

\* AnalyzeFile returning an empty result with a nil error where it should
\* return the error
AnalyzeFileSwallowingErrors(ms, file) ==
    Bind(file, LAMBDA f :
        [err |-> NULL,
         FilePath |-> f.FilePath,
         TotalLines |-> IF f.Outcome = "ok" THEN f.Parse.TotalLines ELSE 0,
         Language |-> f.Parse.Language,
         MetricResults |-> IF f.Outcome = "ok"
                           THEN ApplyMetrics(ms, 1, f.Parse, EmptyMap)
                           ELSE EmptyMap])

\* the result or the error of CodeAnalyzer.AnalyzeFile
AnalyzeFile(ms, file) ==
    Bind(file, LAMBDA f :
        IF f.Outcome = "read_failed"
            THEN [err |-> "file_read_failed", FilePath |-> f.FilePath]
        ELSE IF f.Outcome = "parse_failed"
            THEN [err |-> "code_parse_failed", FilePath |-> f.FilePath]
        ELSE [err |-> NULL,
              FilePath |-> f.FilePath,
              TotalLines |-> f.Parse.TotalLines,
              Language |-> f.Parse.Language,
              MetricResults |-> ApplyMetrics(ms, 1, f.Parse, EmptyMap)])

(* ------------------------------------------------------------------ *)
(* Aggregation: DefaultAnalyzer.AnalyzeWithExcludes                    *)
(* ------------------------------------------------------------------ *)
\* CalculateOverallScore weighting each file by its line count
CalculateOverallScoreByLines(results) ==
    Bind2(results, SumSeq([i \in 1..Len(results) |-> results[i].TotalLines]),
        LAMBDA rs, lines :
        IF Len(rs) = 0 \/ lines = 0 THEN RZero
        ELSE RDiv(RSumSeq([i \in 1..Len(rs) |->
                     RMul(GetOverallScore(rs[i].MetricResults),
                          R(rs[i].TotalLines))]), R(lines)))

\* CalculateOverallScore without the test for an empty list: the division
\* 0.0 / 0 gives NaN, written <<0, 0>>
CalculateOverallScoreNoGuard(results) ==
    Bind(results, LAMBDA rs :
        IF Len(rs) = 0 THEN <<0, 0>>
        ELSE RDiv(RSumSeq([i \in 1..Len(rs) |->
                              GetOverallScore(rs[i].MetricResults)]),
                  R(Len(rs))))

CalculateOverallScore(results) ==
    Bind(results, LAMBDA rs :
        IF Len(rs) = 0 THEN RZero
        ELSE RDiv(RSumSeq([i \in 1..Len(rs) |->
                              GetOverallScore(rs[i].MetricResults)]),
                  R(Len(rs))))

\* allMetrics[name]: the results of the metric name, in the order of the
\* results that have one
WithMetric(results, name) ==
    Bind(SelectSeq(results, LAMBDA r : name \in DOMAIN r.MetricResults),
         LAMBDA rs : [i \in 1..Len(rs) |-> rs[i].MetricResults[name]])

\* ProjectMetrics dividing the sum of the scores of a metric by the number
\* of all results instead of the number of results that have the metric
ProjectMetricsOverAllFiles(results) ==
    Bind(results, LAMBDA rs :
        [name \in UNION {DOMAIN rs[i].MetricResults : i \in 1..Len(rs)} |->
            Bind(WithMetric(rs, name), LAMBDA ms :
                [Name |-> name,
                 Score |-> RDiv(RSumSeq([i \in 1..Len(ms) |-> ms[i].Score]),
                                R(Len(rs))),
                 Weight |-> ms[Len(ms)].Weight])])

\* the project level row of every metric that has a result in some file
ProjectMetrics(results) ==
    Bind(results, LAMBDA rs :
        [name \in UNION {DOMAIN rs[i].MetricResults : i \in 1..Len(rs)} |->
            Bind(WithMetric(rs, name), LAMBDA ms :
                [Name |-> name,
                 Score |-> RDiv(RSumSeq([i \in 1..Len(ms) |-> ms[i].Score]),
                                R(Len(ms))),
                 Weight |-> ms[Len(ms)].Weight])])

\* the lists of file entries the results from the k-th on can give: the
\* issues of each file are in one of the orders GetIssues can return
RECURSIVE FilesAnalyzedOf(_, _)
FilesAnalyzedOf(results, k) ==
    IF k > Len(results) THEN {<<>>}
    ELSE {<<[FilePath |-> results[k].FilePath,
             FileScore |-> GetOverallScore(results[k].MetricResults),
             Issues |-> iss]>> \o rest :
            iss \in GetIssues(results[k].MetricResults),
            rest \in FilesAnalyzedOf(results, k + 1)}

\* the project results AnalyzeWithExcludes can build from the results
AnalyzeWithExcludes(results) ==
    Bind(results, LAMBDA rs :
        {[CodeQualityScore |-> CalculateOverallScore(rs),
          Metrics |-> ProjectMetrics(rs),
          FilesAnalyzed |-> fa,
          TotalFiles |-> Len(rs),
          TotalLines |-> SumSeq([i \in 1..Len(rs) |-> rs[i].TotalLines])] :
            fa \in FilesAnalyzedOf(rs, 1)})

(* ------------------------------------------------------------------ *)
(* State                                                               *)
(* ------------------------------------------------------------------ *)
VARIABLES
    files,        \* the file list FindSourceFiles returned (or the one file)
    metrics,      \* the metrics GetMetrics returns
    target,       \* "dir": the path is a directory, "file": a single file
    pc,           \* position of the coordinator (AnalyzeDirectory and caller)
    idx,          \* index of the next file of the dispatch loop
    wpc,          \* position of the worker goroutine of each file
    semaphore,    \* number of slots taken in the semaphore channel
    wg,           \* counter of the WaitGroup
    resultsChan,  \* buffer of the result channel
    errChan,      \* buffer of the error channel
    closed,       \* have the result and error channels been closed
    results,      \* the results slice AnalyzeDirectory returns
    logged,       \* the warnings written to stderr
    fileResult,   \* the per-file result of a single file analysis
    analysis,     \* the AnalysisResult handed to the caller, Nil before
    panicked,     \* a goroutine sent on a closed channel
    run,          \* number of the current run over the files
    prev,         \* the AnalysisResult of the previous run, Nil if none
    input,        \* the argument of a parser or metric applied on its own
    output        \* what the parser or metric returned for it, Nil before

vars == <<files, metrics, target, pc, idx, wpc, semaphore, wg, resultsChan,
          errChan, closed, results, logged, fileResult, analysis, panicked,
          run, prev, input, output>>

\* the largest number of workers that analyse at the same time
MaxConcurrency == 8

\* concurrencyLimit without the limit of MaxConcurrency
ConcurrencyLimitUnbounded(n) == n

\* concurrencyLimit := min(8, len(files)), the capacity of the semaphore
ConcurrencyLimit(n) == Min(MaxConcurrency, n)

\* result and error channels made without a buffer
ChanCapacityUnbuffered(n) == 0

\* the capacity of the result channel and of the error channel
ChanCapacity(n) == n

N == Len(files)
Workers == 1..N

(* ------------------------------------------------------------------ *)
(* The files of the runs                                               *)
(* ------------------------------------------------------------------ *)
Fn(name, start, end, complexity, params) ==
    [Name |-> name, StartLine |-> start, EndLine |-> end,
     Complexity |-> complexity, Parameters |-> params]

\* a short Go file with one simple function and enough comments
CleanParse ==
    [Language |-> Go, TotalLines |-> 20, CommentLines |-> 5,
     Functions |-> <<Fn("small", 1, 10, 2, 1)>>, ASTRoot |-> NoAST]

\* a long Python file with one long, complex function
ComplexParse ==
    [Language |-> Python, TotalLines |-> 200, CommentLines |-> 20,
     Functions |-> <<Fn("big", 1, 120, 16, 2)>>, ASTRoot |-> NoAST]

\* what a file of a directory run can be, apart from its path
FileKinds ==
    { [Outcome |-> "ok", Parse |-> CleanParse],
      [Outcome |-> "ok", Parse |-> ComplexParse],
      [Outcome |-> "read_failed", Parse |-> ComplexParse] }

File(path, kind) ==
    [FilePath |-> path, Outcome |-> kind.Outcome, Parse |-> kind.Parse]

\* the file lists of at most MaxFiles files; the path of a file is its
\* position in the walk order of the directory
FileLists ==
    UNION {{[i \in 1..n |-> File(i, ks[i])] : ks \in [1..n -> FileKinds]} :
              n \in 0..MaxFiles}

\* the file list of the pool runs: PoolExcess files more than
\* MaxConcurrency, a file that is analysed followed by files whose parser
\* fails, not told apart by their path
PoolLists ==
    {[i \in 1..(MaxConcurrency + PoolExcess) |->
         File(0, [Outcome |-> IF i = 1 THEN "ok" ELSE "parse_failed",
                  Parse |-> CleanParse])]}

\* the file lists of the runs checked for termination
FairKinds ==
    { [Outcome |-> "ok", Parse |-> CleanParse],
      [Outcome |-> "read_failed", Parse |-> ComplexParse] }

FairLists ==
    UNION {{[i \in 1..n |-> File(i, ks[i])] : ks \in [1..n -> FairKinds]} :
              n \in 0..MaxFiles}

\* The single files: every combination of a language with its syntax tree,
\* of line counts and of a list of at most MaxFuncs functions that lie
\* within the lines of the file.
FuncChoices ==
    { Fn("tiny", 1, 1, 1, 0), Fn("long", 1, 40, 12, 6),
      Fn("huge", 1, 120, 45, 8) }

FuncLists == UNION {[1..n -> FuncChoices] : n \in 0..MaxFuncs}

\* <<TotalLines, CommentLines>>
LineChoices == { <<0, 0>>, <<1, 1>>, <<120, 0>>, <<120, 10>>, <<120, 30>> }

GoFiles ==
    { [kind |-> "go_file", FuncDecls |-> <<>>, GlobalVars |-> 0,
       PtrParams |-> 0, Undocumented |-> <<>>],
      [kind |-> "go_file",
       FuncDecls |-> <<[Name |-> "Huge", Complexity |-> 45]>>,
       GlobalVars |-> 2, PtrParams |-> 1,
       Undocumented |-> << <<"func", "Huge">>, <<"type", "Config">> >>] }

\* <<Language, ASTRoot>>
LanguageChoices ==
    {<<Go, NoAST>>, <<Python, NoAST>>} \cup {<<Go, g>> : g \in GoFiles}

FitsIn(fs, totalLines) == \A i \in 1..Len(fs) : fs[i].EndLine <= totalLines

ParseResults ==
    UNION {{[Language |-> la[1], TotalLines |-> li[1], CommentLines |-> li[2],
             Functions |-> fs, ASTRoot |-> la[2]] :
               la \in LanguageChoices,
               fs \in {l \in FuncLists : FitsIn(l, li[1])}} :
              li \in LineChoices}

\* a Go file of five functions whose complexities average 3, without and
\* with its syntax tree
FiveFuncs ==
    <<Fn("one", 1, 2, 1, 0), Fn("two", 3, 4, 2, 0), Fn("three", 5, 6, 3, 0),
      Fn("four", 7, 8, 4, 0), Fn("five", 9, 10, 5, 0)>>

FiveFuncParses ==
    {[Language |-> Go, TotalLines |-> 10, CommentLines |-> 0,
      Functions |-> FiveFuncs, ASTRoot |-> ast] :
        ast \in {NoAST,
                 [kind |-> "go_file",
                  FuncDecls |-> [i \in 1..5 |->
                                   [Name |-> FiveFuncs[i].Name,
                                    Complexity |-> FiveFuncs[i].Complexity]],
                  GlobalVars |-> 0, PtrParams |-> 0, Undocumented |-> <<>>]}}

SingleFiles ==
    {[FilePath |-> 1, Outcome |-> "ok", Parse |-> pr] :
        pr \in ParseResults \cup FiveFuncParses}
        \cup {[FilePath |-> 1, Outcome |-> o, Parse |-> CleanParse] :
                  o \in {"read_failed", "parse_failed"}}

\* the metrics ms, those at the positions S supporting only the languages
\* langs (the last parameter of NewBaseMetric)
WithLanguages(ms, S, langs) ==
    [k \in 1..Len(ms) |->
        IF k \in S THEN [ms[k] EXCEPT !.SupportedLanguages = langs] ELSE ms[k]]

\* the metrics ms, those at the positions S with the weight w
WithWeight(ms, S, w) ==
    [k \in 1..Len(ms) |->
        IF k \in S THEN [ms[k] EXCEPT !.Weight = w] ELSE ms[k]]

\* the metric lists of the single file runs: the factory's and lists of
\* metrics built with other languages and weights
MetricLists ==
    {CreateAllMetrics,
     WithWeight(CreateAllMetrics, 1..7, RZero),
     WithWeight(CreateAllMetrics, 4..7, RZero)}
        \cup {WithLanguages(CreateAllMetrics, S, langs) :
                  S \in {1..7, {1, 4}},
                  langs \in {{Go}, {Python, Unsupported}}}

InitAll(fs, ms, tg, in) ==
    /\ files = fs
    /\ metrics = ms
    /\ target = tg
    /\ pc = "idle"
    /\ idx = 1
    /\ wpc = [i \in 1..Len(fs) |-> "idle"]
    /\ semaphore = 0
    /\ wg = 0
    /\ resultsChan = <<>>
    /\ errChan = <<>>
    /\ closed = FALSE
    /\ results = <<>>
    /\ logged = <<>>
    /\ fileResult = Nil
    /\ analysis = Nil
    /\ panicked = FALSE
    /\ run = 1
    /\ prev = Nil
    /\ input = in
    /\ output = Nil

InitWith(fs, ms, tg) == InitAll(fs, ms, tg, Nil)

\* the state before a parser or a metric is applied on its own to in
InitApply(tg, in) == InitAll(<<>>, CreateAllMetrics, tg, in)

\* a directory of at most MaxFiles files or one of the files on its own
Init ==
    \/ \E fs \in FileLists : InitWith(fs, CreateAllMetrics, "dir")
    \/ \E k \in FileKinds : InitWith(<<File(1, k)>>, CreateAllMetrics, "file")

InitPool == \E fs \in PoolLists : InitWith(fs, CreateAllMetrics, "dir")

InitFile ==
    \E f \in SingleFiles, ms \in MetricLists : InitWith(<<f>>, ms, "file")

(* ------------------------------------------------------------------ *)
(* CodeAnalyzer.AnalyzeDirectory: the coordinator                      *)
(* ------------------------------------------------------------------ *)
\* A panic ends the program: no goroutine takes a step after it.

\* AnalyzeDirectory is entered: the channels, the semaphore and the
\* WaitGroup are made and the dispatch loop starts
Start ==
    /\ ~panicked
    /\ target = "dir"
    /\ pc = "idle"
    /\ pc' = "dispatch"
    /\ idx' = 1
    /\ UNCHANGED <<files, metrics, target, wpc, semaphore, wg, resultsChan,
                   errChan, closed, results, logged, fileResult, analysis,
                   panicked, run, prev, input, output>>

\* one iteration of the loop over the files: wg.Add(1); go func(file)
Spawn ==
    /\ ~panicked
    /\ pc = "dispatch"
    /\ idx <= N
    /\ wg' = wg + 1
    /\ wpc' = [wpc EXCEPT ![idx] = "acquire"]
    /\ idx' = idx + 1
    /\ UNCHANGED <<files, metrics, target, pc, semaphore, resultsChan, errChan,
                   closed, results, logged, fileResult, analysis, panicked,
                   run, prev, input, output>>

\* the loop over the files ends and the coordinator calls wg.Wait()
DispatchDone ==
    /\ ~panicked
    /\ pc = "dispatch"
    /\ idx > N
    /\ pc' = "wait"
    /\ UNCHANGED <<files, metrics, target, idx, wpc, semaphore, wg,
                   resultsChan, errChan, closed, results, logged, fileResult,
                   analysis, panicked, run, prev, input, output>>

\* wg.Wait() returning although the counter is not zero
WaitReturnsEarly == TRUE

\* the condition under which wg.Wait() returns
WaitReturns == wg = 0

\* wg.Wait() returns; close(resultsChan); close(errChan)
WaitAndClose ==
    /\ ~panicked
    /\ pc = "wait"
    /\ WaitReturns
    /\ closed' = TRUE
    /\ pc' = "collect"
    /\ UNCHANGED <<files, metrics, target, idx, wpc, semaphore, wg,
                   resultsChan, errChan, results, logged, fileResult,
                   analysis, panicked, run, prev, input, output>>

\* one iteration of: for result := range resultsChan
Collect ==
    /\ ~panicked
    /\ pc = "collect"
    /\ resultsChan # <<>>
    /\ results' = Append(results, Head(resultsChan))
    /\ resultsChan' = Tail(resultsChan)
    /\ UNCHANGED <<files, metrics, target, pc, idx, wpc, semaphore, wg,
                   errChan, closed, logged, fileResult, analysis, panicked,
                   run, prev, input, output>>

\* the range over resultsChan ends: the channel is closed and empty
CollectDone ==
    /\ ~panicked
    /\ pc = "collect"
    /\ resultsChan = <<>>
    /\ closed
    /\ pc' = "errors"
    /\ UNCHANGED <<files, metrics, target, idx, wpc, semaphore, wg,
                   resultsChan, errChan, closed, results, logged, fileResult,
                   analysis, panicked, run, prev, input, output>>

\* one iteration of: for err := range errChan, which writes a warning
LogError ==
    /\ ~panicked
    /\ pc = "errors"
    /\ errChan # <<>>
    /\ logged' = Append(logged, Head(errChan))
    /\ errChan' = Tail(errChan)
    /\ UNCHANGED <<files, metrics, target, pc, idx, wpc, semaphore, wg,
                   resultsChan, closed, results, fileResult, analysis,
                   panicked, run, prev, input, output>>

\* the range over errChan ends and AnalyzeDirectory returns results, nil
Return ==
    /\ ~panicked
    /\ pc = "errors"
    /\ errChan = <<>>
    /\ closed
    /\ pc' = "returned"
    /\ UNCHANGED <<files, metrics, target, idx, wpc, semaphore, wg,
                   resultsChan, errChan, closed, results, logged, fileResult,
                   analysis, panicked, run, prev, input, output>>

\* DefaultAnalyzer.AnalyzeWithExcludes builds the project result from the
\* results AnalyzeDirectory returned
Aggregate ==
    /\ ~panicked
    /\ pc = "returned"
    /\ \E a \in AnalyzeWithExcludes(results) : analysis' = a
    /\ pc' = "done"
    /\ UNCHANGED <<files, metrics, target, idx, wpc, semaphore, wg,
                   resultsChan, errChan, closed, results, logged, fileResult,
                   panicked, run, prev, input, output>>

(* ------------------------------------------------------------------ *)
(* The worker goroutine of the file at position i                      *)
(* ------------------------------------------------------------------ *)
\* semaphore <- struct{}{}: blocks while every slot is taken
Acquire(i) ==
    /\ ~panicked
    /\ wpc[i] = "acquire"
    /\ semaphore < ConcurrencyLimit(N)
    /\ semaphore' = semaphore + 1
    /\ wpc' = [wpc EXCEPT ![i] = "analyze"]
    /\ UNCHANGED <<files, metrics, target, pc, idx, wg, resultsChan, errChan,
                   closed, results, logged, fileResult, analysis, panicked,
                   run, prev, input, output>>

\* can a value be sent on a channel with this buffer without blocking
CanSend(buffer) == Len(buffer) < ChanCapacity(N)

\* a goroutine that sends a result after the error of a file that failed
AnalyzeAndSendBoth(i) ==
    /\ ~panicked
    /\ wpc[i] = "analyze"
    /\ \E r \in {AnalyzeFile(metrics, files[i])} :
           IF closed
           THEN /\ panicked' = TRUE
                /\ UNCHANGED <<wpc, resultsChan, errChan, semaphore, wg>>
           ELSE /\ UNCHANGED panicked
                /\ IF r.err # NULL
                   THEN /\ CanSend(errChan)
                        /\ errChan' = Append(errChan, r)
                   ELSE UNCHANGED errChan
                /\ CanSend(resultsChan)
                /\ resultsChan' = Append(resultsChan, r)
                /\ semaphore' = semaphore - 1
                /\ wg' = wg - 1
                /\ wpc' = [wpc EXCEPT ![i] = "done"]
    /\ UNCHANGED <<files, metrics, target, pc, idx, closed, results, logged,
                   fileResult, analysis, run, prev, input, output>>

\* a goroutine that gives its slot back only after a result
AnalyzeAndSendLeaking(i) ==
    /\ ~panicked
    /\ wpc[i] = "analyze"
    /\ \E r \in {AnalyzeFile(metrics, files[i])} :
           IF closed
           THEN /\ panicked' = TRUE
                /\ UNCHANGED <<wpc, resultsChan, errChan, semaphore, wg>>
           ELSE /\ UNCHANGED panicked
                /\ IF r.err # NULL
                   THEN /\ CanSend(errChan)
                        /\ errChan' = Append(errChan, r)
                        /\ UNCHANGED <<resultsChan, semaphore>>
                   ELSE /\ CanSend(resultsChan)
                        /\ resultsChan' = Append(resultsChan, r)
                        /\ semaphore' = semaphore - 1
                        /\ UNCHANGED errChan
                /\ wg' = wg - 1
                /\ wpc' = [wpc EXCEPT ![i] = "done"]
    /\ UNCHANGED <<files, metrics, target, pc, idx, closed, results, logged,
                   fileResult, analysis, run, prev, input, output>>

\* The rest of the goroutine: a.AnalyzeFile(filePath), the send of the error
\* or of the result, and the deferred calls in their order, <-semaphore and
\* then wg.Done().  A send on a full channel blocks and a send on a closed
\* channel panics.  The three channel and WaitGroup operations are one step:
\* the release and wg.Done() never block and only enable steps of others,
\* so every state with a worker between them is equivalent to the state
\* after them as far as the other goroutines are concerned.
AnalyzeAndSend(i) ==
    /\ ~panicked
    /\ wpc[i] = "analyze"
    /\ \E r \in {AnalyzeFile(metrics, files[i])} :
           IF closed
           THEN /\ panicked' = TRUE
                /\ UNCHANGED <<wpc, resultsChan, errChan, semaphore, wg>>
           ELSE /\ UNCHANGED panicked
                /\ IF r.err # NULL
                   THEN /\ CanSend(errChan)
                        /\ errChan' = Append(errChan, r)
                        /\ UNCHANGED resultsChan
                   ELSE /\ CanSend(resultsChan)
                        /\ resultsChan' = Append(resultsChan, r)
                        /\ UNCHANGED errChan
                /\ semaphore' = semaphore - 1
                /\ wg' = wg - 1
                /\ wpc' = [wpc EXCEPT ![i] = "done"]
    /\ UNCHANGED <<files, metrics, target, pc, idx, closed, results, logged,
                   fileResult, analysis, run, prev, input, output>>

Coordinator ==
    \/ Start
    \/ Spawn
    \/ DispatchDone
    \/ WaitAndClose
    \/ Collect
    \/ CollectDone
    \/ LogError
    \/ Return
    \/ Aggregate

Worker(i) ==
    \/ Acquire(i)
    \/ AnalyzeAndSend(i)

\* the metric rows DefaultAnalyzer.AnalyzeFile copies from a file result
FileMetrics(metricResults) ==
    Bind(metricResults, LAMBDA mr :
        [name \in DOMAIN mr |->
            [Name |-> name, Score |-> mr[name].Score,
             Weight |-> mr[name].Weight]])

\* DefaultAnalyzer.AnalyzeFile, called by AnalyzeWithExcludes when the path
\* is no directory: the error of CodeAnalyzer.AnalyzeFile is returned, its
\* result is turned into a project result of one file
AnalyzeSingleFile ==
    /\ target = "file"
    /\ pc = "idle"
    /\ \E r \in {AnalyzeFile(metrics, files[1])} :
           /\ fileResult' = r
           /\ IF r.err # NULL
              THEN /\ pc' = "failed"
                   /\ UNCHANGED analysis
              ELSE /\ pc' = "done"
                   /\ \E iss \in GetIssues(r.MetricResults) :
                         analysis' =
                             [CodeQualityScore |->
                                  GetOverallScore(r.MetricResults),
                              Metrics |-> FileMetrics(r.MetricResults),
                              FilesAnalyzed |->
                                  <<[FilePath |-> r.FilePath,
                                     FileScore |->
                                         GetOverallScore(r.MetricResults),
                                     Issues |-> iss]>>,
                              TotalFiles |-> 1,
                              TotalLines |-> r.TotalLines]
    /\ UNCHANGED <<files, metrics, target, idx, wpc, semaphore, wg,
                   resultsChan, errChan, closed, results, logged, panicked,
                   run, prev, input, output>>

NextDir ==
    \/ Coordinator
    \/ \E i \in Workers : Acquire(i)
    \/ \E i \in Workers : AnalyzeAndSend(i)

Next == NextDir \/ AnalyzeSingleFile

Spec == Init /\ [][Next]_vars

SpecPool == InitPool /\ [][NextDir]_vars

SpecFile == InitFile /\ [][AnalyzeSingleFile]_vars

\* directory runs with metrics that do not apply to every language
RestrictedLists ==
    {WithLanguages(CreateAllMetrics, {1, 4}, {Go}),
     WithLanguages(CreateAllMetrics, {2}, {Python, Unsupported})}

InitMetrics ==
    \E fs \in FileLists, ms \in RestrictedLists : InitWith(fs, ms, "dir")

SpecMetrics == InitMetrics /\ [][NextDir]_vars

\* the same files are analysed once more (the program is run again): the
\* result of the run is kept for comparison and the run starts afresh
Rerun ==
    /\ pc = "done"
    /\ run < MaxRuns
    /\ run' = run + 1
    /\ prev' = analysis
    /\ pc' = "idle"
    /\ idx' = 1
    /\ wpc' = [i \in Workers |-> "idle"]
    /\ closed' = FALSE
    /\ results' = <<>>
    /\ logged' = <<>>
    /\ analysis' = Nil
    /\ fileResult' = Nil
    /\ UNCHANGED <<files, metrics, target, semaphore, wg, resultsChan,
                   errChan, panicked, input, output>>

NextRerun == Next \/ Rerun

SpecRerun == Init /\ [][NextRerun]_vars

\* The scheduler is fair: while some goroutine can take a step, a step is
\* taken.  This is the least a fair scheduler guarantees; one that lets
\* every runnable goroutine run guarantees more.
Fairness == WF_vars(NextDir)

\* the runs checked for termination: short lists and pool runs
InitFair ==
    \/ \E fs \in FairLists : InitWith(fs, CreateAllMetrics, "dir")
    \/ InitPool

SpecFair == InitFair /\ [][NextDir]_vars /\ Fairness

(* ------------------------------------------------------------------ *)
(* The duplication metric applied on its own                           *)
(* ------------------------------------------------------------------ *)
\* the bodies of the functions: the kinds of their nodes.  The signatures
\* are forreturn (9 characters), switchcase (10), ifreturnreturn (14) and
\* =rangeifreturn (14); identifiers and calls leave no trace in them.
BodyChoices ==
    { <<"ForStmt", "Ident", "ReturnStmt">>,
      <<"SwitchStmt", "CaseClause", "CallExpr">>,
      <<"IfStmt", "Ident", "ReturnStmt", "ReturnStmt">>,
      <<"AssignStmt", "RangeStmt", "IfStmt", "ReturnStmt">> }

\* a declaration: a function with one of the bodies, a function without
\* body or a declaration that is no function
DeclChoices ==
    {[HasBody |-> TRUE, Body |-> b] : b \in BodyChoices}
        \cup {[HasBody |-> FALSE, Body |-> <<>>]}

\* the Go files of at most MaxDecls declarations; the name of a declaration
\* is its position
DeclLists ==
    UNION {{[i \in 1..n |-> [Name |-> i, HasBody |-> ds[i].HasBody,
                             Body |-> ds[i].Body]] :
               ds \in [1..n -> DeclChoices]} : n \in 0..MaxDecls}

InitDuplication == \E f \in DeclLists : InitApply("duplication", f)

\* CodeDuplicationMetric.Analyze(file, fileSet, content)
AnalyzeDuplication ==
    /\ target = "duplication"
    /\ output = Nil
    /\ \E r \in DuplicationAnalyze(input) : output' = r
    /\ UNCHANGED <<files, metrics, target, pc, idx, wpc, semaphore, wg,
                   resultsChan, errChan, closed, results, logged, fileResult,
                   analysis, panicked, run, prev, input>>

SpecDuplication == InitDuplication /\ [][AnalyzeDuplication]_vars

(* ------------------------------------------------------------------ *)
(* Text: a content is a sequence of characters                         *)
(* ------------------------------------------------------------------ *)
\* the characters of a string
Chars(s) == [i \in 1..Len(s) |-> SubSeq(s, i, i)]

Letters == {Chars("abcdefghijklmnopqrstuvwxyz")[i] : i \in 1..26}
             \cup {Chars("ABCDEFGHIJKLMNOPQRSTUVWXYZ")[i] : i \in 1..26}
Digits == {Chars("0123456789")[i] : i \in 1..10}

\* unicode.IsSpace for the characters of the contents
IsSpace(ch) == ch \in {" ", "\t", "\n", "\r"}

\* a word character of a regular expression: [0-9A-Za-z_]
IsWord(ch) == ch \in Letters \cup Digits \cup {"_"}

\* strings.Contains, strings.Count, strings.HasPrefix, strings.HasSuffix
Contains(s, sub) == IndexFrom(s, Chars(sub), 1) # 0
Count(s, sub) == CountFrom(s, Chars(sub), 1)
HasPrefix(s, prefix) == OccursAt(s, Chars(prefix), 1)
HasSuffix(s, suffix) ==
    /\ Len(suffix) <= Len(s)
    /\ OccursAt(s, Chars(suffix), Len(s) - Len(suffix) + 1)

\* strings.TrimSpace
TrimSpace(s) ==
    Bind({i \in 1..Len(s) : ~IsSpace(s[i])}, LAMBDA P :
        IF P = {} THEN <<>>
        ELSE SubSeq(s, CHOOSE i \in P : \A k \in P : i <= k,
                       CHOOSE i \in P : \A k \in P : i >= k))

\* the n-th element of a set of numbers in increasing order
Nth(S, n) == CHOOSE q \in S : Cardinality({r \in S : r < q}) = n - 1

\* strings.Split(s, "\n"): the line k lies between the line breaks k - 1
\* and k, the beginning and the end of s being line breaks as well
SplitLines(s) ==
    Bind({q \in 1..Len(s) : s[q] = "\n"}, LAMBDA breaks :
        [k \in 1..(Cardinality(breaks) + 1) |->
            SubSeq(s,
                   IF k = 1 THEN 1 ELSE Nth(breaks, k - 1) + 1,
                   IF k = Cardinality(breaks) + 1 THEN Len(s)
                   ELSE Nth(breaks, k) - 1)])

\* strings.Join(lines, "\n")
RECURSIVE JoinFrom(_, _)
JoinFrom(lines, k) ==
    IF k > Len(lines) THEN <<>>
    ELSE IF k = Len(lines) THEN lines[k]
    ELSE lines[k] \o <<"\n">> \o JoinFrom(lines, k + 1)

JoinLines(lines) == JoinFrom(lines, 1)

\* the number of elements of a sequence that satisfy a test
CountIf(s, Test(_)) == Cardinality({i \in 1..Len(s) : Test(s[i])})

\* a sequence of characters as a string
RECURSIVE Str(_)
Str(s) == IF s = <<>> THEN "" ELSE s[1] \o Str(Tail(s))

\* strings.LastIndex: the last position at which sub occurs in s, 0 if
\* there is none
LastIndex(s, sub) ==
    Bind({j \in 1..Len(s) : OccursAt(s, Chars(sub), j)}, LAMBDA P :
        IF P = {} THEN 0 ELSE CHOOSE j \in P : \A k \in P : j >= k)

\* the last element of strings.Fields(s), empty if there is none
LastField(s) ==
    Bind(TrimSpace(s), LAMBDA t :
        Bind({j \in 1..Len(t) : IsSpace(t[j])}, LAMBDA P :
            IF P = {} THEN t
            ELSE SubSeq(t, (CHOOSE j \in P : \A k \in P : j >= k) + 1,
                        Len(t))))

\* strings.TrimSuffix(s, "{")
TrimBrace(s) == IF HasSuffix(s, "{") THEN SubSeq(s, 1, Len(s) - 1) ELSE s

\* the parse result of the text based parsers
Result(language, lines, commentLines, functions) ==
    [Language |-> language, TotalLines |-> Len(lines),
     CommentLines |-> commentLines, Functions |-> functions,
     ASTRoot |-> NoAST]

(* ------------------------------------------------------------------ *)
(* CParser: the text based parser of C and C++                         *)
(* ------------------------------------------------------------------ *)
C == "c"

isAlphaNum(r) == r \in Letters \cup Digits \cup {"_"}

\* countCommentLines from line k on, inBlockComment telling whether the
\* line lies in a block comment
RECURSIVE CParser_countCommentLines(_, _, _)
CParser_countCommentLines(lines, k, inBlockComment) ==
    IF k > Len(lines) THEN 0
    ELSE Bind(TrimSpace(lines[k]), LAMBDA trimmedLine :
        IF inBlockComment
            THEN 1 + CParser_countCommentLines(lines, k + 1,
                         ~Contains(trimmedLine, "*/"))
        ELSE IF HasPrefix(trimmedLine, "//")
            THEN 1 + CParser_countCommentLines(lines, k + 1, FALSE)
        ELSE IF HasPrefix(trimmedLine, "/*")
            THEN 1 + CParser_countCommentLines(lines, k + 1,
                         ~Contains(trimmedLine, "*/"))
        ELSE CParser_countCommentLines(lines, k + 1, FALSE))

\* extractFunctionName of a trimmed line, empty if there is none
CParser_extractFunctionName(trimmed) ==
    Bind(TrimSpace(TrimBrace(trimmed)), LAMBDA line :
        Bind(LastIndex(line, "("), LAMBDA paren :
            IF paren = 0 THEN <<>>
            ELSE LastField(SubSeq(line, 1, paren - 1))))

CParser_countParameters(line) ==
    Bind2(LastIndex(line, "("), LastIndex(line, ")"), LAMBDA start, end :
        IF start # 0 /\ end # 0 /\ end > start
        THEN Bind(TrimSpace(SubSeq(line, start + 1, end - 1)), LAMBDA params :
                 IF params = <<>> \/ params = Chars("void") THEN 0
                 ELSE Count(params, ",") + 1)
        ELSE 0)

\* the opening minus the closing braces among the first p characters of s
Braces(s, p) ==
    Cardinality({q \in 1..p : s[q] = "{"})
        - Cardinality({q \in 1..p : s[q] = "}"})

\* findFunctionEnd(lines, startLine - 1): the number of the last line of
\* the function that starts on line startLine.  The bracket count starts
\* at 1 after line startLine; the function ends on the first line on which
\* a closing brace brings it to 0, on the last line if there is none.
CParser_findFunctionEnd(lines, startLine) ==
    Bind([k \in 1..Len(lines) |->
             IF k <= startLine THEN 0 ELSE Braces(lines[k], Len(lines[k]))],
         LAMBDA net :
        Bind({k \in (startLine + 1)..Len(lines) :
                 \E p \in 1..Len(lines[k]) :
                     /\ lines[k][p] = "}"
                     /\ 1 + SumTo(net, k - 1) + Braces(lines[k], p) = 0},
             LAMBDA P :
            IF P = {} THEN Len(lines)
            ELSE CHOOSE k \in P : \A j \in P : k <= j))

CParser_keywords ==
    <<"if", "else", "for", "while", "do", "switch", "case", "catch", "?",
      "&&", "||">>

\* the loop over the j occurrences of a keyword in a line:
\* <<what it adds to the complexity, what it leaves of the line>>
RECURSIVE CParser_keywordLoop(_, _, _)
CParser_keywordLoop(line, keyword, j) ==
    IF j = 0 THEN <<0, line>>
    ELSE Bind(IndexFrom(line, keyword, 1), LAMBDA pos :
        IF pos = 0 THEN CParser_keywordLoop(line, keyword, j - 1)
        ELSE Bind(CParser_keywordLoop(
                      SubSeq(line, pos + Len(keyword), Len(line)),
                      keyword, j - 1), LAMBDA rest :
            <<rest[1] +
                (IF /\ (pos = 1 \/ ~isAlphaNum(line[pos - 1]))
                    /\ \/ pos + Len(keyword) > Len(line)
                       \/ ~isAlphaNum(line[pos + Len(keyword)])
                 THEN 1 ELSE 0),
              rest[2]>>))

\* the loop over the keywords from the n-th on, on what the keywords
\* before have left of the line
RECURSIVE CParser_lineComplexity(_, _)
CParser_lineComplexity(line, n) ==
    IF n > Len(CParser_keywords) THEN 0
    ELSE Bind(Chars(CParser_keywords[n]), LAMBDA keyword :
        Bind(CParser_keywordLoop(line, keyword, CountFrom(line, keyword, 1)),
             LAMBDA r : r[1] + CParser_lineComplexity(r[2], n + 1)))

\* estimateComplexity(lines, startLine - 1, lineCount)
CParser_estimateComplexity(lines, startLine, lineCount) ==
    1 + SumSeq([k \in 1..Min(lineCount, Len(lines) - startLine + 1) |->
                   CParser_lineComplexity(lines[startLine + k - 1], 1)])

\* the numbers from 1 to n in increasing order
UpTo(n) == [k \in 1..n |-> k]

\* detectFunctions: a function for every line that ends with an opening
\* brace, does not start with one and has a function name
CParser_detectFunctions(lines) ==
    Bind(SelectSeq(UpTo(Len(lines)), LAMBDA k :
             Bind(TrimSpace(lines[k]), LAMBDA trimmed :
                 /\ HasSuffix(trimmed, "{")
                 /\ ~HasPrefix(trimmed, "{")
                 /\ CParser_extractFunctionName(trimmed) # <<>>)),
         LAMBDA starts :
        [n \in 1..Len(starts) |->
            Bind2(starts[n], TrimSpace(lines[starts[n]]), LAMBDA k, trimmed :
                Bind(CParser_findFunctionEnd(lines, k), LAMBDA endLine :
                    Fn(Str(CParser_extractFunctionName(trimmed)), k, endLine,
                       CParser_estimateComplexity(lines, k, endLine - k + 1),
                       CParser_countParameters(trimmed))))])

\* CParser.Parse: never an error
CParser_Parse(content) ==
    Bind(SplitLines(content), LAMBDA lines :
        [err |-> NULL,
         Result |-> Result(C, lines, CParser_countCommentLines(lines, 1, FALSE),
                           CParser_detectFunctions(lines))])

(* ------------------------------------------------------------------ *)
(* JavaParser                                                          *)
(* ------------------------------------------------------------------ *)
Java == "java"

\* the part of s before the first occurrence of sub, s if there is none
Before(s, sub) ==
    Bind(IndexFrom(s, Chars(sub), 1), LAMBDA j :
        IF j = 0 THEN s ELSE SubSeq(s, 1, j - 1))

\* the part of s after the first occurrence of sub, s if there is none
After(s, sub) ==
    Bind(IndexFrom(s, Chars(sub), 1), LAMBDA j :
        IF j = 0 THEN s ELSE SubSeq(s, j + Len(sub), Len(s)))

\* countCommentLines from line k on; inJavadoc is never set without
\* inBlockComment, a line that starts with /** starts with /* as well
RECURSIVE JavaParser_countCommentLines(_, _, _)
JavaParser_countCommentLines(lines, k, inBlockComment) ==
    IF k > Len(lines) THEN 0
    ELSE Bind(TrimSpace(lines[k]), LAMBDA trimmedLine :
        IF inBlockComment
            THEN 1 + JavaParser_countCommentLines(lines, k + 1,
                         ~Contains(trimmedLine, "*/"))
        ELSE IF HasPrefix(trimmedLine, "//")
            THEN 1 + JavaParser_countCommentLines(lines, k + 1, FALSE)
        ELSE IF HasPrefix(trimmedLine, "/*")
            THEN 1 + JavaParser_countCommentLines(lines, k + 1,
                         ~Contains(trimmedLine, "*/"))
        ELSE JavaParser_countCommentLines(lines, k + 1, FALSE))

\* does a method start on the line
JavaParser_methodStart(trimmedLine) ==
    /\ \/ Contains(trimmedLine, "public ")
       \/ Contains(trimmedLine, "private ")
       \/ Contains(trimmedLine, "protected ")
       \/ Contains(trimmedLine, "static ")
    /\ Contains(trimmedLine, "(")
    /\ ~HasPrefix(trimmedLine, "//")
    /\ LastField(Before(trimmedLine, "(")) # <<>>

\* the number of parameters read from the line of the method header
JavaParser_paramCount(header) ==
    IF ~Contains(header, "(") THEN 0
    ELSE Bind(Before(Before(After(header, "("), "("), ")"), LAMBDA paramStr :
        IF paramStr = <<>> THEN 0 ELSE Count(paramStr, ",") + 1)

\* the complexity given to every method of the file
JavaParser_complexity(content) ==
    1 + Count(content, "if ") + Count(content, "for ")
      + Count(content, "while ") + Count(content, "catch ")
      + Count(content, "case ")

\* detectJavaFunctions from line k on; startLine is 0 outside a method
RECURSIVE JavaParser_detectFrom(_, _, _, _, _)
JavaParser_detectFrom(content, lines, k, bracketLevel, startLine) ==
    IF k > Len(lines) THEN <<>>
    ELSE Bind(TrimSpace(lines[k]), LAMBDA trimmedLine :
        Bind(IF startLine = 0 /\ JavaParser_methodStart(trimmedLine)
             THEN k ELSE startLine, LAMBDA start :
            IF start = 0
            THEN JavaParser_detectFrom(content, lines, k + 1, bracketLevel, 0)
            ELSE Bind(bracketLevel + Count(lines[k], "{")
                          - Count(lines[k], "}"), LAMBDA level :
                IF level <= 0 /\ Contains(lines[k], "}")
                THEN <<Fn(Str(LastField(Before(TrimSpace(lines[start]), "("))),
                          start, k, JavaParser_complexity(content),
                          JavaParser_paramCount(lines[start]))>>
                     \o JavaParser_detectFrom(content, lines, k + 1, 0, 0)
                ELSE JavaParser_detectFrom(content, lines, k + 1, level,
                                           start))))

JavaParser_detectJavaFunctions(content, lines) ==
    JavaParser_detectFrom(content, lines, 1, 0, 0)

\* JavaParser.Parse: never an error
JavaParser_Parse(content) ==
    Bind(SplitLines(content), LAMBDA lines :
        [err |-> NULL,
         Result |-> Result(Java, lines,
                           JavaParser_countCommentLines(lines, 1, FALSE),
                           JavaParser_detectJavaFunctions(content, lines))])

(* ------------------------------------------------------------------ *)
(* PythonParser                                                        *)
(* ------------------------------------------------------------------ *)
\* The outcome of the participle parser is part of the input: Rejected
\* when the grammar does not accept the content, otherwise the sequence of
\* the top level statements.  A statement is a record with a Type:
\*   FunctionDef [Name, Line, Params, Body]    (Line is Pos.Line)
\*   IfStmt [Body, ElifClauses, ElseClause]    (sequences of bodies, bodies)
\*   ForStmt [Body], WhileStmt [Body]
\*   TryStmt [Body, ExceptClauses, FinallyClause]
\*   Expression, Comment
\* A body that is absent is the empty sequence.
Rejected == [rejected |-> TRUE]

DocQuotes == "\"\"\""
DocTicks == "'''"

\* countCommentLines from line k on; docStringDelimiter is "" outside a
\* documentation string
RECURSIVE PythonParser_countCommentLines(_, _, _)
PythonParser_countCommentLines(lines, k, docStringDelimiter) ==
    IF k > Len(lines) THEN 0
    ELSE Bind(TrimSpace(lines[k]), LAMBDA trimmedLine :
        IF docStringDelimiter # ""
            THEN 1 + PythonParser_countCommentLines(lines, k + 1,
                         IF Contains(trimmedLine, docStringDelimiter)
                         THEN "" ELSE docStringDelimiter)
        ELSE IF HasPrefix(trimmedLine, "#")
            THEN 1 + PythonParser_countCommentLines(lines, k + 1, "")
        ELSE IF HasPrefix(trimmedLine, DocQuotes)
            THEN 1 + PythonParser_countCommentLines(lines, k + 1,
                         IF Count(trimmedLine, DocQuotes) > 1
                         THEN "" ELSE DocQuotes)
        ELSE IF HasPrefix(trimmedLine, DocTicks)
            THEN 1 + PythonParser_countCommentLines(lines, k + 1,
                         IF Count(trimmedLine, DocTicks) > 1
                         THEN "" ELSE DocTicks)
        ELSE PythonParser_countCommentLines(lines, k + 1, ""))

\* the indentation of a line: a leading space counts 1, a leading tab 4
Indent(line) ==
    Bind({p \in 1..Len(line) : line[p] \notin {" ", "\t"}}, LAMBDA P :
        Bind(IF P = {} THEN Len(line)
             ELSE (CHOOSE p \in P : \A k \in P : p <= k) - 1, LAMBDA n :
            Cardinality({p \in 1..n : line[p] = " "})
                + 4 * Cardinality({p \in 1..n : line[p] = "\t"})))

\* findFunctionEnd(lines, startLine - 1) for the definition on line
\* startLine: the number of the line before the first later line that is
\* not blank, no comment and not indented deeper than the definition
PythonParser_findFunctionEnd(lines, startLine) ==
    IF startLine > Len(lines) THEN Len(lines)
    ELSE Bind({j \in (startLine + 1)..Len(lines) :
                  /\ TrimSpace(lines[j]) # <<>>
                  /\ ~HasPrefix(TrimSpace(lines[j]), "#")
                  /\ Indent(lines[j]) <= Indent(lines[startLine])},
              LAMBDA P :
        IF P = {} THEN Len(lines)
        ELSE (CHOOSE j \in P : \A k \in P : j <= k) - 1)

PythonParser_complexityKeywords ==
    <<"if", "elif", "else", "for", "while", "except", "finally", "with",
      "and", "or">>

\* estimateComplexity(content, startLine - 1, lineCount)
PythonParser_estimateComplexity(lines, startLine, lineCount) ==
    Bind(JoinLines(SubSeq(lines, startLine, startLine + lineCount - 1)),
         LAMBDA funcContent :
        1 + SumSeq([n \in 1..Len(PythonParser_complexityKeywords) |->
                CountFrom(funcContent,
                          <<" ">> \o Chars(PythonParser_complexityKeywords[n])
                              \o <<" ">>, 1)]))

\* strings.TrimPrefix(s, "def ")
TrimDef(s) == IF HasPrefix(s, "def ") THEN SubSeq(s, 5, Len(s)) ELSE s

\* the number of parameters read from the trimmed line of a definition
PythonParser_params(trimmedLine) ==
    IF ~Contains(trimmedLine, "(") THEN 0
    ELSE Bind(TrimSpace(Before(Before(After(trimmedLine, "("), "("), ")")),
              LAMBDA paramPart :
        IF paramPart = <<>> THEN 0 ELSE Count(paramPart, ",") + 1)

\* detectFunctions: a function for every line that starts with def
PythonParser_detectFunctions(lines) ==
    Bind(SelectSeq(UpTo(Len(lines)), LAMBDA k :
             HasPrefix(TrimSpace(lines[k]), "def ")), LAMBDA starts :
        [n \in 1..Len(starts) |->
            Bind2(starts[n], TrimSpace(lines[starts[n]]),
                  LAMBDA k, trimmedLine :
                Bind(PythonParser_findFunctionEnd(lines, k), LAMBDA endLine :
                    Fn(Str(TrimSpace(TrimDef(Before(trimmedLine, "(")))),
                       k, endLine,
                       PythonParser_estimateComplexity(lines, k,
                                                       endLine - k + 1),
                       PythonParser_params(trimmedLine))))])

\* calculateComplexity: what the statements add to the complexity
RECURSIVE PythonParser_calculateComplexity(_)
PythonParser_calculateComplexity(stmts) ==
    SumSeq([i \in 1..Len(stmts) |->
        Bind(stmts[i], LAMBDA stmt :
            IF stmt.Type = "IfStmt"
                THEN 1 + PythonParser_calculateComplexity(stmt.Body)
                       + SumSeq([e \in 1..Len(stmt.ElifClauses) |->
                             1 + PythonParser_calculateComplexity(
                                     stmt.ElifClauses[e])])
                       + PythonParser_calculateComplexity(stmt.ElseClause)
            ELSE IF stmt.Type \in {"ForStmt", "WhileStmt"}
                THEN 1 + PythonParser_calculateComplexity(stmt.Body)
            ELSE IF stmt.Type = "TryStmt"
                THEN PythonParser_calculateComplexity(stmt.Body)
                       + SumSeq([e \in 1..Len(stmt.ExceptClauses) |->
                             1 + PythonParser_calculateComplexity(
                                     stmt.ExceptClauses[e])])
                       + PythonParser_calculateComplexity(stmt.FinallyClause)
            ELSE 0)])

\* extractFunctions: the function definitions among the top level
\* statements
PythonParser_extractFunctions(statements, lines) ==
    Bind(SelectSeq(statements, LAMBDA stmt : stmt.Type = "FunctionDef"),
         LAMBDA defs :
        [i \in 1..Len(defs) |->
            Fn(defs[i].Name, defs[i].Line,
               PythonParser_findFunctionEnd(lines, defs[i].Line),
               1 + PythonParser_calculateComplexity(defs[i].Body),
               defs[i].Params)])

\* PythonParser.Parse: never an error; tree is what the participle parser
\* makes of the content
PythonParser_Parse(content, tree) ==
    Bind(SplitLines(content), LAMBDA lines :
        [err |-> NULL,
         Result |->
             [Language |-> Python, TotalLines |-> Len(lines),
              CommentLines |-> PythonParser_countCommentLines(lines, 1, ""),
              Functions |-> IF tree = Rejected
                            THEN PythonParser_detectFunctions(lines)
                            ELSE PythonParser_extractFunctions(
                                     tree.Statements, lines),
              ASTRoot |-> IF tree = Rejected THEN NoAST
                          ELSE [kind |-> "other"]]])

(* ------------------------------------------------------------------ *)
(* GenericParser: C# files, Razor files and the languages without a    *)
(* parser of their own                                                 *)
(* ------------------------------------------------------------------ *)
CSharp == "csharp"

\* A position p of a content is the position of a character, counted from
\* 1, or Len + 1 for the end; the code counts from 0.

\* the first position from p on whose character fails the test
SkipWhile(s, p, Test(_)) ==
    Bind({q \in p..Len(s) : ~Test(s[q])}, LAMBDA P :
        IF P = {} THEN Len(s) + 1 ELSE CHOOSE q \in P : \A k \in P : q <= k)

SkipSpace(s, p) == SkipWhile(s, p, IsSpace)

\* [a-zA-Z_][a-zA-Z0-9_]* at p: the position after it, 0 if there is none
IdentEnd(s, p) ==
    IF p <= Len(s) /\ s[p] \in Letters \cup {"_"}
    THEN SkipWhile(s, p, IsWord) ELSE 0

\* \s+ at p: the position after it, 0 if there is none
SpacesEnd(s, p) == IF p <= Len(s) /\ IsSpace(s[p]) THEN SkipSpace(s, p) ELSE 0

\* the first of the words that occurs at p, "" if none does (no word is
\* the beginning of another one)
WordAt(s, p, words) ==
    Bind({n \in 1..Len(words) : OccursAt(s, Chars(words[n]), p)}, LAMBDA P :
        IF P = {} THEN "" ELSE words[CHOOSE n \in P : \A k \in P : n <= k])

\* no match of a pattern
NoMatch == [stop |-> 0, name |-> <<>>]

\* genericPattern at p:
\*   (function|def|void|int|bool|string|double|float)\s+
\*   ([a-zA-Z_][a-zA-Z0-9_]*)\s*\(
\* stop is the position after the match, name the second group.  Every
\* repetition is followed by a character it cannot take, so that only the
\* longest repetitions can match.
genericWords ==
    <<"function", "def", "void", "int", "bool", "string", "double", "float">>

genericPattern(s, p) ==
    Bind(WordAt(s, p, genericWords), LAMBDA word :
        IF word = "" THEN NoMatch
        ELSE Bind(SpacesEnd(s, p + Len(word)), LAMBDA a :
            IF a = 0 THEN NoMatch
            ELSE Bind(IdentEnd(s, a), LAMBDA b :
                IF b = 0 THEN NoMatch
                ELSE Bind(SkipSpace(s, b), LAMBDA c :
                    IF c <= Len(s) /\ s[c] = "("
                    THEN [stop |-> c + 1, name |-> SubSeq(s, a, b - 1)]
                    ELSE NoMatch))))

\* ^ of a pattern with the flag m
LineStart(s, p) == p = 1 \/ s[p - 1] = "\n"

csharpModifiers ==
    <<"public", "private", "protected", "internal", "static", "virtual",
      "override", "abstract", "sealed", "async">>

\* (?:(?:public|...|async)\s+) at p: the position after it, 0 if there is
\* none
ModifierEnd(s, p) ==
    Bind(WordAt(s, p, csharpModifiers), LAMBDA word :
        IF word = "" THEN 0 ELSE SpacesEnd(s, p + Len(word)))

\* the positions after 0, 1, 2, ... modifiers from p on, the longest chain
\* first
RECURSIVE ModifierChain(_, _)
ModifierChain(s, p) ==
    Bind(ModifierEnd(s, p), LAMBDA q :
        IF q = 0 THEN <<p>> ELSE ModifierChain(s, q) \o <<p>>)

IsTypeChar(ch) == IsWord(ch) \/ ch \in {"<", ">", "[", "]"}

\* the rest of csharpPattern at p, after the modifiers:
\*   ([a-zA-Z_][a-zA-Z0-9_<>\[\]]*(?:\?)?)\s+([a-zA-Z_][a-zA-Z0-9_]*)\s*
\*   \(([^)]*)\)\s*(?:\{|=>)
csharpRest(s, p) ==
    IF ~(p <= Len(s) /\ s[p] \in Letters \cup {"_"}) THEN NoMatch
    ELSE Bind(SkipWhile(s, p, IsTypeChar), LAMBDA t :
        Bind(SpacesEnd(s, IF t <= Len(s) /\ s[t] = "?" THEN t + 1 ELSE t),
             LAMBDA a :
            IF a = 0 THEN NoMatch
            ELSE Bind(IdentEnd(s, a), LAMBDA b :
                IF b = 0 THEN NoMatch
                ELSE Bind(SkipSpace(s, b), LAMBDA c :
                    IF ~(c <= Len(s) /\ s[c] = "(") THEN NoMatch
                    ELSE Bind(IndexFrom(s, <<")">>, c + 1), LAMBDA d :
                        IF d = 0 THEN NoMatch
                        ELSE Bind(SkipSpace(s, d + 1), LAMBDA e :
                            IF e <= Len(s) /\ s[e] = "{"
                                THEN [stop |-> e + 1,
                                      name |-> SubSeq(s, a, b - 1)]
                            ELSE IF OccursAt(s, <<"=", ">">>, e)
                                THEN [stop |-> e + 2,
                                      name |-> SubSeq(s, a, b - 1)]
                            ELSE NoMatch))))))

\* the first match of the rest of the pattern after one of the chains
RECURSIVE FirstRest(_, _, _)
FirstRest(s, chain, n) ==
    IF n > Len(chain) THEN NoMatch
    ELSE Bind(csharpRest(s, chain[n]), LAMBDA m :
        IF m.stop # 0 THEN m ELSE FirstRest(s, chain, n + 1))

\* csharpPattern at p:
\*   ^\s*(?:(?:public|...|async)\s+)*  and the rest
\* The match gives up modifiers, the last one first, until the rest matches.
csharpPattern(s, p) ==
    IF ~LineStart(s, p) THEN NoMatch
    ELSE FirstRest(s, ModifierChain(s, SkipSpace(s, p)), 1)

\* a pattern at p
PatternAt(pattern, s, p) ==
    IF pattern = "csharpPattern" THEN csharpPattern(s, p)
    ELSE genericPattern(s, p)

\* FindAllStringSubmatchIndex from position p on: the matches, each with
\* the position start at which it begins
RECURSIVE FindAllFrom(_, _, _)
FindAllFrom(pattern, s, p) ==
    Bind({q \in p..Len(s) : PatternAt(pattern, s, q).stop # 0}, LAMBDA P :
        IF P = {} THEN <<>>
        ELSE Bind(CHOOSE q \in P : \A k \in P : q <= k, LAMBDA q :
            Bind(PatternAt(pattern, s, q), LAMBDA m :
                <<[start |-> q, stop |-> m.stop, name |-> m.name]>>
                    \o FindAllFrom(pattern, s, m.stop))))

\* getLineNumber(content, p - 1)
GenericParser_getLineNumber(content, p) ==
    IF p > Len(content) THEN 1
    ELSE 1 + Cardinality({q \in 1..(p - 1) : content[q] = "\n"})

\* the state of the loop of findBlockEnd before its first character; skip
\* tells that the loop has stepped over the next character, end is the
\* position of the brace at which the loop has returned, 0 before
BlockStart ==
    [bracketCount |-> 0, inString |-> FALSE, inChar |-> FALSE,
     inLineComment |-> FALSE, inBlockComment |-> FALSE,
     foundFirstBracket |-> FALSE, skip |-> FALSE, end |-> 0]

\* is the character at i a quote that no backslash precedes
QuoteAt(content, i, quote) ==
    content[i] = quote /\ (i = 1 \/ content[i - 1] # "\\")

\* are the characters at i and i + 1 the characters c and d
PairAt(content, i, c, d) ==
    content[i] = c /\ i + 1 <= Len(content) /\ content[i + 1] = d

\* one round of the loop of findBlockEnd: the state after the character
\* at i
GenericParser_blockStep(content, i, st) ==
    IF st.end # 0 THEN st
    ELSE IF st.skip THEN [st EXCEPT !.skip = FALSE]
    ELSE Bind2(~st.inLineComment /\ ~st.inBlockComment,
               ~st.inString /\ ~st.inChar, LAMBDA code, plain :
        IF code /\ QuoteAt(content, i, "\"")
            THEN [st EXCEPT !.inString = ~@]
        ELSE IF code /\ QuoteAt(content, i, "'")
            THEN [st EXCEPT !.inChar = ~@]
        ELSE IF plain /\ code /\ PairAt(content, i, "/", "/")
            THEN [st EXCEPT !.inLineComment = TRUE]
        ELSE IF plain /\ code /\ PairAt(content, i, "/", "*")
            THEN [st EXCEPT !.inBlockComment = TRUE, !.skip = TRUE]
        ELSE IF plain /\ st.inLineComment /\ content[i] = "\n"
            THEN [st EXCEPT !.inLineComment = FALSE]
        ELSE IF plain /\ st.inBlockComment /\ PairAt(content, i, "*", "/")
            THEN [st EXCEPT !.inBlockComment = FALSE, !.skip = TRUE]
        ELSE IF plain /\ code /\ content[i] = "{"
            THEN [st EXCEPT !.bracketCount = @ + 1,
                            !.foundFirstBracket = TRUE]
        ELSE IF plain /\ code /\ content[i] = "}" /\ st.foundFirstBracket
            THEN IF st.bracketCount = 1 THEN [st EXCEPT !.end = i]
                 ELSE [st EXCEPT !.bracketCount = @ - 1]
        ELSE IF content[i] = "\n"
            THEN [st EXCEPT !.inLineComment = FALSE]
        ELSE st)

\* the rounds of the loop for the characters from lo to hi, one half of
\* them after the other
RECURSIVE GenericParser_blockRun(_, _, _, _)
GenericParser_blockRun(content, lo, hi, st) ==
    IF lo > hi THEN st
    ELSE IF lo = hi THEN GenericParser_blockStep(content, lo, st)
    ELSE Bind(GenericParser_blockRun(content, lo, (lo + hi) \div 2, st),
              LAMBDA half :
        IF half.end # 0 THEN half
        ELSE GenericParser_blockRun(content, (lo + hi) \div 2 + 1, hi, half))

\* the loop of findBlockEnd from position p on: the position of the
\* brace that closes the block, 0 if there is none
GenericParser_blockLoop(content, p) ==
    GenericParser_blockRun(content, p, Len(content), BlockStart).end

\* findBlockEnd(content, p - 1, lines, startLine)
GenericParser_findBlockEnd(content, p, lines, startLine) ==
    IF p > Len(content) THEN startLine + 1
    ELSE IF startLine <= 0 \/ startLine > Len(lines) THEN Len(lines)
    ELSE Bind(GenericParser_blockLoop(content, p), LAMBDA i :
        IF i = 0 THEN Len(lines)
        ELSE startLine + Cardinality({j \in p..i : content[j] = "\n"}))

\* countParameters(content, "(", ")")
GenericParser_countParameters(content) ==
    Bind(IndexFrom(content, <<"(">>, 1), LAMBDA start :
        IF start = 0 THEN 0
        ELSE Bind(IndexFrom(content, <<")">>, start), LAMBDA end :
            IF end = 0 THEN 0
            ELSE Bind(TrimSpace(SubSeq(content, start + 1, end - 1)),
                      LAMBDA params :
                IF params = <<>> \/ params = Chars("void") THEN 0
                ELSE Count(params, ",") + 1)))

\* the keywords of estimateComplexity
GenericParser_keywords(language) ==
    IF language = CSharp
    THEN <<"if", "else", "for", "while", "do", "case", "catch", "finally",
           "?", "&&", "||", "switch", "foreach">>
    ELSE <<"if", "else", "for", "while", "switch", "case", "try", "catch",
           "&&", "||">>

\* \b at the position p of a text, Len + 1 being its end
WordBoundary(text, p) ==
    (p > 1 /\ IsWord(text[p - 1])) # (p <= Len(text) /\ IsWord(text[p]))

\* the number of matches in the text of the regular expression made of
\* \b, the keyword and \b.  With the keyword || this is the alternation of
\* \b, of the empty expression and of \b, which matches the empty string
\* at every position; with the keyword ? it is an optional \b followed by
\* \b, which matches the empty string at every word boundary; with any
\* other keyword it matches the keyword between two word boundaries.
KeywordMatches(text, keyword) ==
    IF keyword = "||" THEN Len(text) + 1
    ELSE IF keyword = "?"
        THEN Cardinality({p \in 1..(Len(text) + 1) : WordBoundary(text, p)})
    ELSE Cardinality({p \in 1..Len(text) :
                         /\ OccursAt(text, Chars(keyword), p)
                         /\ WordBoundary(text, p)
                         /\ WordBoundary(text, p + Len(keyword))})

\* findContentEndPosition(content, p - 1, lineCount) + 1: the position of
\* the lineCount-th line break from p on, of the last character if there
\* are fewer
GenericParser_findContentEndPosition(content, p, lineCount) ==
    Bind({q \in p..Len(content) :
             /\ content[q] = "\n"
             /\ Cardinality({j \in p..q : content[j] = "\n"}) = lineCount},
         LAMBDA P :
        IF P = {} THEN Len(content) ELSE CHOOSE q \in P : TRUE)

\* estimateComplexity(content, p - 1, lineCount, language)
GenericParser_estimateComplexity(content, p, lineCount, language) ==
    IF p > Len(content) \/ lineCount <= 0 THEN 1
    ELSE Bind(GenericParser_findContentEndPosition(content, p, lineCount),
              LAMBDA endPos :
        IF endPos <= p THEN 1
        ELSE Bind2(SubSeq(content, p, endPos - 1),
                   GenericParser_keywords(language),
                   LAMBDA funcContent, keywords :
            1 + SumSeq([n \in 1..Len(keywords) |->
                           KeywordMatches(funcContent, keywords[n])])))

\* detectFunctionsWithPattern(content, lines, pattern, language)
GenericParser_detectFunctionsWithPattern(content, lines, pattern, language) ==
    Bind(FindAllFrom(pattern, content, 1), LAMBDA matches :
        [n \in 1..Len(matches) |->
            Bind(matches[n].start, LAMBDA p :
                Bind(GenericParser_getLineNumber(content, p),
                     LAMBDA startLine :
                    Bind(GenericParser_findBlockEnd(content, p, lines,
                                                    startLine),
                         LAMBDA endLine :
                        Fn(Str(matches[n].name), startLine, endLine,
                           GenericParser_estimateComplexity(
                               content, p, endLine - startLine, language),
                           GenericParser_countParameters(
                               SubSeq(content, p,
                                      Min(p + 499, Len(content)))))))) ])

\* countCStyleComments from line k on.  A line that starts with /// starts
\* with // as well and is counted as a line comment, so that inXmlDoc is
\* never set.
RECURSIVE GenericParser_countCStyleComments(_, _, _)
GenericParser_countCStyleComments(lines, k, inBlockComment) ==
    IF k > Len(lines) THEN 0
    ELSE Bind(TrimSpace(lines[k]), LAMBDA trimmedLine :
        IF inBlockComment
            THEN 1 + GenericParser_countCStyleComments(lines, k + 1,
                         ~Contains(trimmedLine, "*/"))
        ELSE IF HasPrefix(trimmedLine, "//")
            THEN 1 + GenericParser_countCStyleComments(lines, k + 1, FALSE)
        ELSE IF HasPrefix(trimmedLine, "/*")
            THEN 1 + GenericParser_countCStyleComments(lines, k + 1,
                         ~Contains(trimmedLine, "*/"))
        ELSE GenericParser_countCStyleComments(lines, k + 1, FALSE))

GenericParser_countGenericComments(lines) ==
    Cardinality({k \in 1..Len(lines) :
        Bind(TrimSpace(lines[k]), LAMBDA trimmedLine :
            \/ HasPrefix(trimmedLine, "//")
            \/ HasPrefix(trimmedLine, "#")
            \/ HasPrefix(trimmedLine, "/*")
            \/ HasPrefix(trimmedLine, "*"))})

GenericParser_countCommentLines(lines, language) ==
    IF language = CSharp
    THEN GenericParser_countCStyleComments(lines, 1, FALSE)
    ELSE GenericParser_countGenericComments(lines)

\* the sequences of a sequence one after the other
RECURSIVE Flatten(_, _)
Flatten(seqs, k) ==
    IF k > Len(seqs) THEN <<>> ELSE seqs[k] \o Flatten(seqs, k + 1)

\* does @(code|functions)\s*\{ match somewhere in the line
codeBlockPattern(line) ==
    \E p \in 1..Len(line) :
        /\ line[p] = "@"
        /\ Bind(WordAt(line, p + 1, <<"code", "functions">>), LAMBDA word :
               /\ word # ""
               /\ Bind(SkipSpace(line, p + 1 + Len(word)), LAMBDA q :
                      q <= Len(line) /\ line[q] = "{"))

\* the code block that starts on line k, if there is one: the bracket
\* count after the lines k to j, followed until it is no longer positive
GenericParser_blockAt(lines, k) ==
    Bind([j \in 1..Len(lines) |->
             IF j < k THEN 0
             ELSE Count(lines[j], "{") - Count(lines[j], "}")], LAMBDA net :
        Bind({j \in (k + 1)..Len(lines) : SumTo(net, j) <= 0}, LAMBDA P :
            IF net[k] <= 0 \/ P = {} THEN <<>>
            ELSE Bind(CHOOSE j \in P : \A i \in P : j <= i, LAMBDA j :
                IF SumTo(net, j) # 0 THEN <<>>
                ELSE <<[Content |-> JoinLines(SubSeq(lines, k, j))
                                       \o <<"\n">>,
                        StartLine |-> k - 1, EndLine |-> j]>>)))

\* extractRazorCodeBlocks
GenericParser_extractRazorCodeBlocks(content) ==
    Bind(SplitLines(content), LAMBDA lines :
        Flatten([k \in 1..Len(lines) |->
                    IF codeBlockPattern(lines[k])
                    THEN GenericParser_blockAt(lines, k) ELSE <<>>], 1))

lifecycleMethods ==
    <<"OnInitialized", "OnInitializedAsync", "OnParametersSet",
      "OnParametersSetAsync", "OnAfterRender", "OnAfterRenderAsync",
      "Dispose", "DisposeAsync", "SetParametersAsync">>

\* (?:word\s+)? at p: the position after it
OptionalWord(s, p, word) ==
    IF OccursAt(s, Chars(word), p) /\ SpacesEnd(s, p + Len(word)) # 0
    THEN SpacesEnd(s, p + Len(word)) ELSE p

\* the pattern of a lifecycle method at p:
\*   (?:protected\s+)?(?:override\s+)?(?:async\s+)?(?:void|Task)\s+
\*   methodName\s*\(
\* the position after the match, 0 if there is none
lifecyclePattern(s, p, methodName) ==
    Bind(OptionalWord(s, OptionalWord(s, OptionalWord(s, p, "protected"),
                                      "override"), "async"), LAMBDA a :
        Bind(WordAt(s, a, <<"void", "Task">>), LAMBDA word :
            IF word = "" THEN 0
            ELSE Bind(SpacesEnd(s, a + Len(word)), LAMBDA b :
                IF b = 0 \/ ~OccursAt(s, Chars(methodName), b) THEN 0
                ELSE Bind(SkipSpace(s, b + Len(methodName)), LAMBDA c :
                    IF c <= Len(s) /\ s[c] = "(" THEN c + 1 ELSE 0))))

\* FindAllStringIndex of the pattern of a lifecycle method from position p
\* on: the positions at which the matches begin
RECURSIVE LifecycleMatches(_, _, _)
LifecycleMatches(s, p, methodName) ==
    Bind({q \in p..Len(s) : lifecyclePattern(s, q, methodName) # 0},
         LAMBDA P :
        IF P = {} THEN <<>>
        ELSE Bind(CHOOSE q \in P : \A k \in P : q <= k, LAMBDA q :
            <<q>> \o LifecycleMatches(s, lifecyclePattern(s, q, methodName),
                                      methodName)))

\* detectRazorLifecycleMethods
GenericParser_detectRazorLifecycleMethods(content, lines) ==
    Flatten([n \in 1..Len(lifecycleMethods) |->
        Bind(LifecycleMatches(content, 1, lifecycleMethods[n]),
             LAMBDA matches :
            [m \in 1..Len(matches) |->
                Bind2(matches[m],
                      GenericParser_getLineNumber(content, matches[m]),
                      LAMBDA p, startLine :
                    Bind(GenericParser_findBlockEnd(content, p, lines,
                                                    startLine),
                         LAMBDA endLine :
                        Fn(lifecycleMethods[n], startLine, endLine,
                           GenericParser_estimateComplexity(
                               content, p, endLine - startLine, CSharp),
                           0)))])], 1)

\* the functions of a block with only their first line counted in the file
GenericParser_blockFunctionsStartOnly(block) ==
    Bind(GenericParser_detectFunctionsWithPattern(
             block.Content, SplitLines(block.Content), "csharpPattern",
             CSharp), LAMBDA blockFunctions :
        [i \in 1..Len(blockFunctions) |->
            [blockFunctions[i] EXCEPT !.StartLine = @ + block.StartLine]])

\* the functions of a block with their lines counted in the file
GenericParser_blockFunctions(block) ==
    Bind(GenericParser_detectFunctionsWithPattern(
             block.Content, SplitLines(block.Content), "csharpPattern",
             CSharp), LAMBDA blockFunctions :
        [i \in 1..Len(blockFunctions) |->
            [blockFunctions[i] EXCEPT !.StartLine = @ + block.StartLine,
                                      !.EndLine = @ + block.StartLine]])

\* detectRazorFunctions
GenericParser_detectRazorFunctions(content, lines) ==
    Bind(GenericParser_extractRazorCodeBlocks(content), LAMBDA codeBlocks :
        Flatten([b \in 1..Len(codeBlocks) |->
                    GenericParser_blockFunctions(codeBlocks[b])], 1)
            \o GenericParser_detectRazorLifecycleMethods(content, lines))

\* detectCSharpFunctions
GenericParser_detectCSharpFunctions(content, lines) ==
    IF \/ Contains(content, "@page") \/ Contains(content, "@model")
       \/ Contains(content, "@{") \/ Contains(content, "@code")
       \/ Contains(content, "@functions")
    THEN GenericParser_detectRazorFunctions(content, lines)
    ELSE GenericParser_detectFunctionsWithPattern(content, lines,
                                                  "csharpPattern", CSharp)

\* detectFunctions for the languages that reach the generic parser
GenericParser_detectFunctions(content, lines, language) ==
    IF language = CSharp
    THEN GenericParser_detectCSharpFunctions(content, lines)
    ELSE GenericParser_detectFunctionsWithPattern(content, lines,
                                                  "genericPattern",
                                                  Unsupported)

\* GenericParser.Parse: never an error; language is the language of the
\* extension of the file
GenericParser_Parse(language, content) ==
    Bind(SplitLines(content), LAMBDA lines :
        [err |-> NULL,
         Result |-> Result(language, lines,
                           GenericParser_countCommentLines(lines, language),
                           GenericParser_detectFunctions(content, lines,
                                                         language))])

(* ------------------------------------------------------------------ *)
(* GoParser                                                            *)
(* ------------------------------------------------------------------ *)
\* What go/parser makes of the content is part of the input: SyntaxError
\* when it rejects the content, otherwise the file with
\*   Comments   the texts of the comments of all comment groups, in order
\*   FuncDecls  the function declarations in order, each with its Name,
\*              the lines Pos and End of its first and last character, the
\*              kinds of the nodes below it (the operator for a binary
\*              expression) and the number Params of its parameter names
\*   Undocumented  the exported functions and types without a doc comment,
\*              each <<"func" or "type", name>>
SyntaxError == [syntaxError |-> TRUE]

\* calculateComplexity(funcDecl)
calculateComplexity(funcDecl) ==
    1 + CountIf(funcDecl.Nodes, LAMBDA node :
            node \in {"IfStmt", "ForStmt", "RangeStmt", "CaseClause",
                      "&&", "||"})

\* GoParser.Parse: the error of go/parser is returned
GoParser_Parse(content, file) ==
    IF file = SyntaxError THEN [err |-> "parse_go_failed", Result |-> Nil]
    ELSE [err |-> NULL,
          Result |->
              [Language |-> Go,
               TotalLines |-> Count(content, "\n") + 1,
               CommentLines |->
                   SumSeq([n \in 1..Len(file.Comments) |->
                              Count(Chars(file.Comments[n]), "\n") + 1]),
               Functions |->
                   [n \in 1..Len(file.FuncDecls) |->
                       Fn(file.FuncDecls[n].Name, file.FuncDecls[n].Pos,
                          file.FuncDecls[n].End,
                          calculateComplexity(file.FuncDecls[n]),
                          file.FuncDecls[n].Params)],
               ASTRoot |-> NoAST]]

(* ------------------------------------------------------------------ *)
(* The parsers applied to contents                                     *)
(* ------------------------------------------------------------------ *)
\* how many pieces a content is made of at most
MaxChunks == 3

\* the contents made of at most MaxChunks pieces of a pool, each piece on
\* lines of its own
RECURSIVE JoinChunks(_, _)
JoinChunks(chunks, k) ==
    IF k = Len(chunks) THEN chunks[k]
    ELSE chunks[k] \o "\n" \o JoinChunks(chunks, k + 1)

ContentsOf(pool) ==
    UNION {{JoinChunks(chunks, 1) : chunks \in [1..n -> pool]} :
              n \in 1..MaxChunks}

\* C: a function without decision, a function with two keywords on one
\* line, a call of a function whose name is made of two keywords,
\* comments, and a header whose block is not closed
CChunks ==
    { "int add(int a, int b) {\n  return a + b;\n}",
      "int scan(int n) {\n  for (;;) if (n) break;\n  return n;\n}",
      "void pick(int x) {\n  y = ifelse(x);\n}",
      "// note\n/* block\n   comment */",
      "void open(int fd) {" }

\* Java: a method without decision, a method with a decision, a method
\* with a variable whose name ends with a keyword, comments, and a header
\* whose block is not closed
JavaChunks ==
    { "  public int add(int a, int b) {\n    return a + b;\n  }",
      "  private int sign(int n) {\n    if (n < 0) { return -1; }\n    return 1;\n  }",
      "  static int gap(int a, int b) {\n    int endif = a - b;\n    return endif;\n  }",
      "  // note\n  /** doc\n   */",
      "  public void open(int fd) {" }

\* Python contents that the grammar of the participle parser rejects (a
\* return statement, an assignment, a definition without body): a
\* function without decision, functions with decisions indented by spaces
\* and by tabs, a comment, and a header on the last line
PythonChunks ==
    { "def add(a, b):\n    return a + b",
      "def sign(n):\n    if n < 0 and n != -1 :\n        return -1\n    return 1",
      "def pick(x):\n\tif x:\n\t\treturn 1\n\treturn 0",
      "# note\nx = 1",
      "def open(fd):" }

\* Python contents that the grammar accepts, with their statements
PythonTrees ==
    { [Content |-> "def f(a):\n    if a:\n        b\n",
       Tree |-> [Statements |->
           <<[Type |-> "FunctionDef", Name |-> "f", Line |-> 1, Params |-> 1,
              Body |-> <<[Type |-> "IfStmt",
                          Body |-> <<[Type |-> "Expression"]>>,
                          ElifClauses |-> <<>>, ElseClause |-> <<>>]>>]>>]],
      [Content |-> "def g():\n    x\ndef h(y):\n    while y:\n        z\n",
       Tree |-> [Statements |->
           <<[Type |-> "FunctionDef", Name |-> "g", Line |-> 1, Params |-> 0,
              Body |-> <<[Type |-> "Expression"]>>],
             [Type |-> "FunctionDef", Name |-> "h", Line |-> 3, Params |-> 1,
              Body |-> <<[Type |-> "WhileStmt",
                          Body |-> <<[Type |-> "Expression"]>>]>>]>>]],
      [Content |-> "# note\nx\n",
       Tree |-> [Statements |->
           <<[Type |-> "Comment"], [Type |-> "Expression"]>>]] }

\* a language without a parser of its own: a function without decision,
\* a function with a decision, a function on one line, comments, and a
\* header whose block is not closed
GenericChunks ==
    { "function add(a, b) {\n  return a + b;\n}",
      "function sign(n) {\n  if (n < 0) { return -1; }\n  return 1;\n}",
      "function one() { return 1; }",
      "// note\n# note\n/* block\n * more */",
      "function open(fd) {" }

\* C# and Razor: a method without decision, a method with a decision, a
\* code block of a Razor file with a lifecycle method, comments, and a
\* header whose block is not closed
CSharpChunks ==
    { "public int Add(int a, int b) {\n    return a + b;\n}",
      "    private void Run()\n    {\n        if (n > 0) { n = 1; }\n    }",
      "@code {\n    protected override void OnInitialized() {\n        n = 0;\n    }\n}",
      "/// doc\n// note\n/* block\n */",
      "public void Dispose() {" }

\* Go contents with what go/parser makes of them
GoFilesParsed ==
    { [Content |-> "package p\nfunc f( {", Tree |-> SyntaxError],
      [Content |-> "", Tree |-> SyntaxError],
      [Content |-> "/*a*/ /*b*/ package p",
       Tree |-> [Undocumented |-> <<>>,
                 Comments |-> <<"/*a*/", "/*b*/">>, FuncDecls |-> <<>>]],
      [Content |-> "package p\n\n// f adds\nfunc f(a int) int {\n\treturn a\n}\n",
       Tree |-> [Undocumented |-> <<>>,
                 Comments |-> <<"// f adds">>,
                 FuncDecls |-> <<[Name |-> "f", Pos |-> 4, End |-> 6,
                                  Nodes |-> <<"BlockStmt", "ReturnStmt">>,
                                  Params |-> 1]>>]],
      [Content |-> "package p\n/* a\n   b */\nfunc g(a, b bool) {\n\tif a && b {\n\t\tfor {\n\t\t}\n\t}\n}\nfunc h() {}",
       Tree |-> [Undocumented |-> <<>>,
                 Comments |-> <<"/* a\n   b */">>,
                 FuncDecls |-> <<[Name |-> "g", Pos |-> 4, End |-> 9,
                                  Nodes |-> <<"BlockStmt", "IfStmt", "&&",
                                              "BlockStmt", "ForStmt",
                                              "BlockStmt">>,
                                  Params |-> 2],
                                 [Name |-> "h", Pos |-> 10, End |-> 10,
                                  Nodes |-> <<"BlockStmt">>,
                                  Params |-> 0]>>]],
      [Content |-> "package p\n\nfunc Run() {}\n\ntype Config struct{}\n",
       Tree |-> [Undocumented |-> << <<"func", "Run">>, <<"type", "Config">> >>,
                 Comments |-> <<>>,
                 FuncDecls |-> <<[Name |-> "Run", Pos |-> 3, End |-> 3,
                                  Nodes |-> <<"BlockStmt">>,
                                  Params |-> 0]>>]] }

\* the inputs of the parsers: the parser CreateParser chooses for the
\* language of the file, the language, the content and what the library
\* parser makes of it
Parsed(parser, language, content, tree) ==
    [Parser |-> parser, Language |-> language, Content |-> content,
     Tree |-> tree]

ParseInputs ==
    {Parsed("GoParser", Go, g.Content, g.Tree) : g \in GoFilesParsed}
        \cup {Parsed("CParser", C, c, Nil) : c \in ContentsOf(CChunks)}
        \cup {Parsed("JavaParser", Java, c, Nil) : c \in ContentsOf(JavaChunks)}
        \cup {Parsed("PythonParser", Python, c, Rejected) :
                 c \in ContentsOf(PythonChunks)}
        \cup {Parsed("PythonParser", Python, t.Content, t.Tree) :
                 t \in PythonTrees}
        \cup {Parsed("GenericParser", Unsupported, c, Nil) :
                 c \in ContentsOf(GenericChunks)}
        \cup {Parsed("GenericParser", CSharp, c, Nil) :
                 c \in ContentsOf(CSharpChunks)}

\* Parse of the parser CreateParser chooses for the input, on a content
ParseOf(in, content) ==
    IF in.Parser = "GoParser" THEN GoParser_Parse(content, in.Tree)
    ELSE IF in.Parser = "CParser" THEN CParser_Parse(content)
    ELSE IF in.Parser = "JavaParser" THEN JavaParser_Parse(content)
    ELSE IF in.Parser = "PythonParser"
        THEN PythonParser_Parse(content, in.Tree)
    ELSE GenericParser_Parse(in.Language, content)

\* CodeAnalyzer.AnalyzeFile from the return of Parse on
AnalyzeParsed(ms, parsed) ==
    AnalyzeFile(ms, [FilePath |-> 1,
                     Outcome |-> IF parsed.err # NULL THEN "parse_failed"
                                 ELSE "ok",
                     Parse |-> parsed.Result])

InitParse == \E in \in ParseInputs : InitApply("parse", in)

\* CodeAnalyzer.AnalyzeFile after the call of Parse: output is what Parse
\* has returned, fileResult what AnalyzeFile returns
Analyzed(parsed) ==
    /\ output' = parsed
    /\ fileResult' = AnalyzeParsed(metrics, parsed)
    /\ UNCHANGED <<files, metrics, target, pc, idx, wpc, semaphore, wg,
                   resultsChan, errChan, closed, results, logged, analysis,
                   panicked, run, prev, input>>

\* CodeAnalyzer.AnalyzeFile on a Go file
ParseGo ==
    /\ target = "parse" /\ output = Nil /\ input.Parser = "GoParser"
    /\ Analyzed(GoParser_Parse(Chars(input.Content), input.Tree))

\* CodeAnalyzer.AnalyzeFile on a C or C++ file
ParseC ==
    /\ target = "parse" /\ output = Nil /\ input.Parser = "CParser"
    /\ Analyzed(CParser_Parse(Chars(input.Content)))

\* CodeAnalyzer.AnalyzeFile on a Java file
ParseJava ==
    /\ target = "parse" /\ output = Nil /\ input.Parser = "JavaParser"
    /\ Analyzed(JavaParser_Parse(Chars(input.Content)))

\* CodeAnalyzer.AnalyzeFile on a Python file
ParsePython ==
    /\ target = "parse" /\ output = Nil /\ input.Parser = "PythonParser"
    /\ Analyzed(PythonParser_Parse(Chars(input.Content), input.Tree))

\* CodeAnalyzer.AnalyzeFile on a file of another language
ParseGeneric ==
    /\ target = "parse" /\ output = Nil /\ input.Parser = "GenericParser"
    /\ Analyzed(GenericParser_Parse(input.Language, Chars(input.Content)))

NextParse ==
    \/ ParseGo
    \/ ParseC
    \/ ParseJava
    \/ ParsePython
    \/ ParseGeneric

SpecParse == InitParse /\ [][NextParse]_vars


(* ------------------------------------------------------------------ *)
(* The report: the files sorted by their score                         *)
(* ------------------------------------------------------------------ *)
\* longest function list of a file of a reported project
MaxReportFuncs == 2

\* the number of files of each of the two kinds of a reported project
HalfProject == 5

\* functions of low complexity, of the highest complexity that raises no
\* issue, and of a complexity that raises the high_complexity issue
ReportFuncChoices ==
    { Fn("plain", 1, 10, 1, 0), Fn("branchy", 11, 30, 10, 2),
      Fn("knot", 31, 50, 16, 1), Fn("maze", 31, 50, 60, 1) }

\* <<TotalLines, CommentLines>>: a quarter, a tenth and none of the lines
\* are comments
ReportLineChoices == { <<200, 50>>, <<200, 20>>, <<200, 0>> }

ReportParses ==
    {[Language |-> Python, TotalLines |-> li[1], CommentLines |-> li[2],
      Functions |-> fs, ASTRoot |-> NoAST] :
        li \in ReportLineChoices,
        fs \in UNION {[1..n -> ReportFuncChoices] : n \in 1..MaxReportFuncs}}

\* the issues of all metrics of a file result
IssuesOf(r) ==
    UNION {{r.MetricResults[n].Issues[k] :
               k \in 1..Len(r.MetricResults[n].Issues)} :
              n \in DOMAIN r.MetricResults}

\* the parse results for which the metrics of the factory report no issue,
\* and those with a function for which the complexity metric reports
\* high_complexity
IssueFreeParses ==
    {pr \in ReportParses :
        IssuesOf(AnalyzeFile(CreateAllMetrics,
                             [FilePath |-> 0, Outcome |-> "ok",
                              Parse |-> pr])) = {}}

HighComplexityParses ==
    {pr \in ReportParses :
        \E i \in 1..Len(pr.Functions) : pr.Functions[i].Complexity > 15}

\* the projects: HalfProject files of one issue free kind and HalfProject
\* files of one kind with a high complexity function, in turn; the files
\* of a kind are not told apart by their path
ReportProjects ==
    {[i \in 1..(2 * HalfProject) |->
         [FilePath |-> 0, Outcome |-> "ok",
          Parse |-> IF i % 2 = 1 THEN clean ELSE complex]] :
        clean \in IssueFreeParses, complex \in HighComplexityParses}

\* the entry of a file in FilesAnalyzed; the issues are kept as a set,
\* their order plays no part in the sorting
FileEntry(r) ==
    [FilePath |-> r.FilePath,
     FileScore |-> GetOverallScore(r.MetricResults),
     Issues |-> IssuesOf(r)]

\* sort.Slice with the comparison FileScore[i] > FileScore[j]: the lists
\* of the same entries in which no entry precedes one of a higher score;
\* the order of entries of equal score is not fixed
SortedByScore(entries) ==
    Bind(entries, LAMBDA es :
        {s \in [1..Len(es) -> {es[i] : i \in 1..Len(es)}] :
            /\ \A e \in {es[i] : i \in 1..Len(es)} :
                   Cardinality({i \in 1..Len(es) : s[i] = e})
                       = Cardinality({i \in 1..Len(es) : es[i] = e})
            /\ \A i \in 1..(Len(es) - 1) :
                   RGe(s[i].FileScore, s[i + 1].FileScore)})

\* Report.getSortedFiles over the entries of the files of the project
getSortedFiles(project) ==
    SortedByScore([i \in 1..Len(project) |->
                      FileEntry(AnalyzeFile(CreateAllMetrics, project[i]))])

InitReport == \E project \in ReportProjects : InitApply("report", project)

\* the project is analysed and the report lists its files
SortFiles ==
    /\ target = "report"
    /\ output = Nil
    /\ \E sorted \in getSortedFiles(input) : output' = sorted
    /\ UNCHANGED <<files, metrics, target, pc, idx, wpc, semaphore, wg,
                   resultsChan, errChan, closed, results, logged, fileResult,
                   analysis, panicked, run, prev, input>>

SpecReport == InitReport /\ [][SortFiles]_vars


(* ------------------------------------------------------------------ *)
(* FindSourceFiles: the discovery of the files of a directory          *)
(* ------------------------------------------------------------------ *)
\* Paths are relative to the analysed root and written with "/"; the
\* names of the model are lower case and hold no pattern character.

\* how many files a directory tree of the model holds at most
MaxTreeFiles == 2

\* strings.Split(s, "/")
Segments(s) ==
    Bind({q \in 1..Len(s) : s[q] = "/"}, LAMBDA breaks :
        [k \in 1..(Cardinality(breaks) + 1) |->
            SubSeq(s,
                   IF k = 1 THEN 1 ELSE Nth(breaks, k - 1) + 1,
                   IF k = Cardinality(breaks) + 1 THEN Len(s)
                   ELSE Nth(breaks, k) - 1)])

\* filepath.Match within one path element, for a pattern element made of
\* stars followed by plain characters: a star matches any sequence of
\* characters of the element, the empty one included
MatchElement(pattern, name) ==
    Bind(Cardinality({q \in 1..Len(pattern) :
                         \A r \in 1..q : pattern[r] = "*"}), LAMBDA stars :
        IF stars = 0 THEN pattern = name
        ELSE /\ Len(pattern) - stars <= Len(name)
             /\ SubSeq(name, Len(name) - (Len(pattern) - stars) + 1, Len(name))
                    = SubSeq(pattern, stars + 1, Len(pattern)))

\* filepath.Match: a star never matches a separator, so the pattern and
\* the name have the same number of elements, which match one by one
Match(pattern, name) ==
    Bind2(Segments(pattern), Segments(name), LAMBDA ps, ns :
        /\ Len(ps) = Len(ns)
        /\ \A k \in 1..Len(ps) : MatchElement(ps[k], ns[k]))

\* filepath.Base of a relative path
Base(path) == Bind(Segments(path), LAMBDA ns : ns[Len(ns)])

\* matchesPattern
matchesPattern(path, pattern) == Match(pattern, Base(path))

\* the test of matchesAnyPattern for one pattern
matchesOnePattern(relPath, pattern) ==
    \/ Match(pattern, relPath)
    \/ /\ Contains(pattern, "**/")
       /\ Count(pattern, "**/") = 1
       /\ Bind2(Before(pattern, "**/"), After(pattern, "**/"),
              LAMBDA prefix, suffix :
              /\ prefix = <<>> \/ OccursAt(relPath, prefix, 1)
              /\ \/ suffix = <<>>
                 \/ /\ Len(suffix) <= Len(relPath)
                    /\ OccursAt(relPath, suffix, Len(relPath) - Len(suffix) + 1)
                 \/ matchesPattern(relPath, suffix))

\* matchesAnyPattern(path, rootDir, patterns) for the path relPath below
\* the root
matchesAnyPattern(relPath, patterns) ==
    \E k \in 1..Len(patterns) : matchesOnePattern(relPath, Chars(patterns[k]))

isHiddenDir(path) == Bind(Base(path), LAMBDA base :
    Len(base) > 0 /\ base[1] = "." /\ base # <<".">>)

shouldSkipDir(relPath, excludePatterns) ==
    isHiddenDir(relPath) \/ matchesAnyPattern(relPath, excludePatterns)

shouldIncludeFile(relPath, includePatterns, excludePatterns) ==
    IF matchesAnyPattern(relPath, excludePatterns) THEN FALSE
    ELSE IF Len(includePatterns) = 0 THEN TRUE
    ELSE matchesAnyPattern(relPath, includePatterns)

\* the extensions of the supported languages
supportedExtensions ==
    {".go", ".js", ".ts", ".tsx", ".py", ".java", ".cpp", ".cc", ".cxx",
     ".hpp", ".c", ".h", ".cs", ".razor"}

\* IsSupportedFile: the extension is what follows the last dot of the name
IsSupportedFile(path) ==
    Bind(Base(path), LAMBDA base :
        Bind({q \in 1..Len(base) : base[q] = "."}, LAMBDA dots :
            /\ dots # {}
            /\ Str(SubSeq(base, CHOOSE q \in dots : \A r \in dots : q >= r,
                          Len(base))) \in supportedExtensions))

\* the directories filepath.Walk enters on the way to a file: the path up
\* to each of its separators
DirectoriesOf(path) ==
    {SubSeq(path, 1, q - 1) : q \in {r \in 1..Len(path) : path[r] = "/"}}

\* FindSourceFiles over a directory whose files are listed in the order of
\* the walk: a file is reached when no directory on the way to it is
\* skipped
FindSourceFiles(tree, includePatterns, excludePatterns) ==
    SelectSeq(tree, LAMBDA file :
        Bind(Chars(file), LAMBDA path :
            /\ \A dir \in DirectoriesOf(path) :
                   ~shouldSkipDir(dir, excludePatterns)
            /\ IsSupportedFile(path)
            /\ shouldIncludeFile(path, includePatterns, excludePatterns)))

defaultExcludes ==
    <<"**/node_modules/**", "**/dist/**", "**/build/**", "**/.next/**",
      "**/public/assets/**", "**/out/**", "**/.cache/**", "**/.nuxt/**",
      "**/.output/**", "**/coverage/**", "**/.vscode/**", "**/.idea/**",
      "**/.git/**", "**/bower_components/**", "**/*.min.js", "**/*.bundle.js",
      "**/*.chunk.js", "**/static/js/*.js", "**/static/css/*.css",
      "**/vendor/**", "**/bin/**", "**/obj/**", "**/target/**",
      "**/__pycache__/**", "**/*.pyc", "**/venv/**", "**/.env/**",
      "**/migrations/**", "**/generated/**", "**/node_modules/**",
      "**/logs/**", "**/tmp/**", "**/temp/**", "**/dist/**",
      "**/test-results/**", "**/testdata/**">>

\* the files a directory of the model can hold, in the order of the walk
TreeFiles ==
    <<".git/hook.py", "bin/tool.go", "lib/obj/gen.py",
      "lib/vendor/pkg/mod.go", "main.go", "node_modules/dep/index.js",
      "node_modules/index.js", "notes.txt", "src/app.go", "src/app.min.js",
      "src/bower_components/x.js", "src/deep/target/out.java",
      "src/static/js/site.js", "vendor/lib.go">>

\* the directories of at most MaxTreeFiles files
Trees ==
    {SelectSeq(TreeFiles, LAMBDA file : \E k \in S : TreeFiles[k] = file) :
        S \in {T \in SUBSET (1..Len(TreeFiles)) :
                  Cardinality(T) <= MaxTreeFiles}}

InitFind == \E tree \in Trees : InitApply("find", tree)

\* the directory is searched with the default exclude patterns, as
\* runAnalysis does when no pattern is given
FindFiles ==
    /\ target = "find"
    /\ output = Nil
    /\ output' = [Files |-> FindSourceFiles(input, <<>>, defaultExcludes)]
    /\ UNCHANGED <<files, metrics, target, pc, idx, wpc, semaphore, wg,
                   resultsChan, errChan, closed, results, logged, fileResult,
                   analysis, panicked, run, prev, input>>

SpecFind == InitFind /\ [][FindFiles]_vars


(* ------------------------------------------------------------------ *)
(* StructureAnalysisMetric.calculateNestingDepth                       *)
(* ------------------------------------------------------------------ *)
\* A statement is a record [kind, Body, Else, Cases]: Body is the list of
\* the statements of its block (of an if, a loop or a block statement),
\* Else holds the else branch of an if when there is one, a block
\* statement or an if statement, and Cases is the list of the bodies of
\* the clauses of a switch or select.

\* how deep the statements of the model are nested
MaxStmtDepth == 2

Stmt(kind, body, else, cases) ==
    [kind |-> kind, Body |-> body, Else |-> else, Cases |-> cases]

ExprStmt == Stmt("ExprStmt", <<>>, <<>>, <<>>)

\* the statement lists of at most one statement of S
StmtLists(S) == {<<>>} \cup {<<s>> : s \in S}

\* the statements nested at most k deep
RECURSIVE Stmts(_)
Stmts(k) ==
    IF k = 0 THEN {ExprStmt}
    ELSE Bind2(Stmts(k - 1), StmtLists(Stmts(k - 1)), LAMBDA S, L :
        S \cup {Stmt("IfStmt", b, e, <<>>) :
                   b \in L,
                   e \in {<<>>}
                         \cup {<<Stmt("BlockStmt", b2, <<>>, <<>>)>> : b2 \in L}
                         \cup {<<s>> : s \in {t \in S : t.kind = "IfStmt"}}}
          \cup {Stmt(kind, b, <<>>, <<>>) :
                   kind \in {"ForStmt", "RangeStmt", "BlockStmt"}, b \in L}
          \cup {Stmt(kind, <<>>, <<>>, <<c>>) :
                   kind \in {"SwitchStmt", "SelectStmt"}, c \in L})

\* the function bodies: no body (nil) or a block
FuncBodies ==
    {[HasBody |-> FALSE, List |-> <<>>]}
        \cup {[HasBody |-> TRUE, List |-> l] :
                 l \in StmtLists(Stmts(MaxStmtDepth))}

\* the largest number of a non-empty set of numbers
MaxOf(S) == CHOOSE x \in S : \A y \in S : y <= x

\* inspectBlock(block, currentDepth): the largest currentDepth of this
\* call and of the calls it makes
RECURSIVE inspectBlock(_, _)
inspectBlock(list, currentDepth) ==
    MaxOf({currentDepth} \cup UNION {
        Bind(list[i], LAMBDA s :
            IF s.kind = "IfStmt"
            THEN {inspectBlock(s.Body, currentDepth + 1)}
                     \cup (IF s.Else = <<>> THEN {}
                           ELSE {inspectBlock(s.Else[1].Body,
                                              currentDepth + 1)})
            ELSE IF s.kind \in {"ForStmt", "RangeStmt", "BlockStmt"}
            THEN {inspectBlock(s.Body, currentDepth + 1)}
            ELSE IF s.kind \in {"SwitchStmt", "SelectStmt"}
            THEN UNION {{inspectBlock(s.Cases[c][j].Body, currentDepth + 1) :
                            j \in {n \in 1..Len(s.Cases[c]) :
                                      s.Cases[c][n].kind = "BlockStmt"}} :
                           c \in 1..Len(s.Cases)}
            ELSE {}) : i \in 1..Len(list)})

calculateNestingDepth(block) ==
    IF ~block.HasBody THEN 0 ELSE inspectBlock(block.List, 1)

InitNesting == \E body \in FuncBodies : InitApply("nesting", body)

\* analyzeNestingDepth for one function declaration
AnalyzeNesting ==
    /\ target = "nesting"
    /\ output = Nil
    /\ output' = [Depth |-> calculateNestingDepth(input)]
    /\ UNCHANGED <<files, metrics, target, pc, idx, wpc, semaphore, wg,
                   resultsChan, errChan, closed, results, logged, fileResult,
                   analysis, panicked, run, prev, input>>

SpecNesting == InitNesting /\ [][AnalyzeNesting]_vars


(* ------------------------------------------------------------------ *)
(* NamingConventionMetric                                              *)
(* ------------------------------------------------------------------ *)
\* A Go file is given to this metric as its package name and the list of
\* its declarations [Kind, Name, Inner]: Kind is "func", "type", "const"
\* or "var", the last two being a value specification of one name in a
\* declaration with that keyword.  Inner is the keyword of the first
\* declaration ast.Inspect finds below the value specification (inside a
\* function literal of its values), "none" when there is none, as always
\* for a constant.

\* longest list of declarations of a Go file given to the naming metric
MaxNames == 2

IsUpper(ch) == \E i \in 1..26 : Chars("ABCDEFGHIJKLMNOPQRSTUVWXYZ")[i] = ch
IsLower(ch) == \E i \in 1..26 : Chars("abcdefghijklmnopqrstuvwxyz")[i] = ch
IsDigit(ch) == ch \in Digits

isLowerCase(name) ==
    \A i \in 1..Len(name) : IsLower(name[i]) \/ IsDigit(name[i])

isCamelCase(name) ==
    /\ name # <<>>
    /\ ~Contains(name, "_")
    /\ ~IsUpper(name[1])
    /\ \A i \in 1..Len(name) :
           IsUpper(name[i]) \/ IsLower(name[i]) \/ IsDigit(name[i])

isPascalCase(name) ==
    /\ name # <<>>
    /\ ~Contains(name, "_")
    /\ IsUpper(name[1])
    /\ \A i \in 1..Len(name) :
           IsUpper(name[i]) \/ IsLower(name[i]) \/ IsDigit(name[i])

isUpperSnakeCase(name) ==
    \A i \in 1..Len(name) :
        IsUpper(name[i]) \/ IsDigit(name[i]) \/ name[i] = "_"

isValidPackageName(name) == isLowerCase(name) /\ ~Contains(name, "_")
isValidVarName(name) == isCamelCase(name) \/ isLowerCase(name)
isValidFuncName(name) == isCamelCase(name)
isValidTypeName(name) == isPascalCase(name)
isValidConstName(name) == isUpperSnakeCase(name) \/ isPascalCase(name)

\* isConstDecl(n) for a value specification: the keyword of the first
\* declaration found at or below the specification; the declaration the
\* specification belongs to lies above it and is not visited
isConstDecl(decl) == decl.Inner = "const"

\* the issue of one declaration, as a sequence of 0 or 1 issues
NamingIssue(decl) ==
    Bind(Chars(decl.Name), LAMBDA name :
        IF decl.Kind = "func"
        THEN IF isValidFuncName(name) THEN <<>>
             ELSE << <<"func_name", decl.Name>> >>
        ELSE IF decl.Kind = "type"
        THEN IF isValidTypeName(name) THEN <<>>
             ELSE << <<"type_name", decl.Name>> >>
        ELSE IF decl.Name = "_" THEN <<>>
        ELSE IF isConstDecl(decl)
        THEN IF isValidConstName(name) THEN <<>>
             ELSE << <<"const_name", decl.Name>> >>
        ELSE IF isValidVarName(name) THEN <<>>
             ELSE << <<"var_name", decl.Name>> >>)

RECURSIVE NamingIssues(_, _)
NamingIssues(decls, k) ==
    IF k > Len(decls) THEN <<>>
    ELSE NamingIssue(decls[k]) \o NamingIssues(decls, k + 1)

NamingCalculateScore(badRatio) ==
    AtMostOne(RAdd(<<2, 5>>, RMul(badRatio, R(10))))

\* analyzeNaming: every issue stands for one bad name
analyzeNaming(file) ==
    Bind((IF isValidPackageName(Chars(file.Package)) THEN <<>>
          ELSE << <<"package_name", file.Package>> >>)
             \o NamingIssues(file.Decls, 1), LAMBDA issues :
        [Score |-> NamingCalculateScore(
                       Frac(Len(issues), 1 + Len(file.Decls))),
         Issues |-> issues,
         badNames |-> Len(issues),
         totalNames |-> 1 + Len(file.Decls)])

NameChoices == {"MAX_SIZE", "MaxSize", "maxSize", "max_size", "limit", "_"}

NamedDeclChoices ==
    {[Kind |-> kind, Name |-> name, Inner |-> "none"] :
        kind \in {"func", "type", "const", "var"}, name \in NameChoices}
        \cup {[Kind |-> "var", Name |-> name, Inner |-> inner] :
                 name \in NameChoices, inner \in {"const", "var"}}

NamedFiles ==
    {[Package |-> package, Decls |-> decls] :
        package \in {"metrics", "my_pkg"},
        decls \in UNION {[1..n -> NamedDeclChoices] : n \in 0..MaxNames}}

InitNaming == \E file \in NamedFiles : InitApply("naming", file)

\* NamingConventionMetric.Analyze for a Go file with its syntax tree
AnalyzeNaming ==
    /\ target = "naming"
    /\ output = Nil
    /\ output' = analyzeNaming(input)
    /\ UNCHANGED <<files, metrics, target, pc, idx, wpc, semaphore, wg,
                   resultsChan, errChan, closed, results, logged, fileResult,
                   analysis, panicked, run, prev, input>>

SpecNaming == InitNaming /\ [][AnalyzeNaming]_vars


(* ------------------------------------------------------------------ *)
(* findBlockEnd applied to function bodies                             *)
(* ------------------------------------------------------------------ *)
\* how many lines the body of the scanned function has at most
MaxBodyLines == 2

\* the lines of a body: each has as many opening as closing braces
\* outside its literals and comments
BodyLines ==
    { "  if (x) { y(); }",
      "  s = \"{\";",
      "  c = '}';",
      "  // } it's",
      "  /* { \" */",
      "  s = \"it's\";",
      "  c = '\"';" }

BlockHeaders == {"function f() {", "void f()\n{"}

\* a function, its body and its closing brace on lines of their own, and
\* a function after it
RECURSIVE BodyText(_, _)
BodyText(body, k) ==
    IF k > Len(body) THEN "" ELSE body[k] \o "\n" \o BodyText(body, k + 1)

Blocks ==
    {[Content |-> header \o "\n" \o BodyText(body, 1)
                      \o "}\nfunction g() {\n}",
      Header |-> header, Body |-> body] :
        header \in BlockHeaders,
        body \in UNION {[1..n -> BodyLines] : n \in 0..MaxBodyLines}}

InitBlock == \E block \in Blocks : InitApply("block", block)

\* findBlockEnd from the first character of the header of the function
FindBlockEnd ==
    /\ target = "block"
    /\ output = Nil
    /\ output' = [EndLine |->
           Bind(Chars(input.Content), LAMBDA content :
               GenericParser_findBlockEnd(content, 1, SplitLines(content),
                                          1))]
    /\ UNCHANGED <<files, metrics, target, pc, idx, wpc, semaphore, wg,
                   resultsChan, errChan, closed, results, logged, fileResult,
                   analysis, panicked, run, prev, input>>

SpecBlock == InitBlock /\ [][FindBlockEnd]_vars

(* ------------------------------------------------------------------ *)
(* Properties                                                          *)
(* ------------------------------------------------------------------ *)
\* the positions of the files whose analysis succeeds
OkFiles == {i \in 1..N : files[i].Outcome = "ok"}

\* the sum of the values val(i) over the positions i of S, taken in the
\* order of the file list
SumAt(S, val(_)) ==
    RSumSeq([i \in 1..N |-> IF i \in S THEN val(i) ELSE RZero])

\* the sums of score * weight and of weight over the metric results mr,
\* taken along the metric list
WeightedTotal(mr) ==
    RSumSeq([k \in 1..Len(metrics) |->
                IF metrics[k].Name \in DOMAIN mr
                THEN RMul(mr[metrics[k].Name].Score, mr[metrics[k].Name].Weight)
                ELSE RZero])

WeightTotal(mr) ==
    RSumSeq([k \in 1..Len(metrics) |->
                IF metrics[k].Name \in DOMAIN mr
                THEN mr[metrics[k].Name].Weight
                ELSE RZero])

\* the file score as the specification states it
StatedFileScore(mr) ==
    IF DOMAIN mr = {} \/ WeightTotal(mr) = RZero THEN RZero
    ELSE IF RLt(RDiv(WeightedTotal(mr), WeightTotal(mr)), RZero) THEN RZero
    ELSE IF RGt(RDiv(WeightedTotal(mr), WeightTotal(mr)), ROne) THEN ROne
    ELSE RDiv(WeightedTotal(mr), WeightTotal(mr))

SingleDone == target = "file" /\ pc = "done"

DirDone == target = "dir" /\ pc = "done"

\* C1: the score of an analysed file is the sum of score * weight over the
\* metric results recorded for it divided by the sum of their weights, cut
\* to the range 0..1, and it is 0 when no metric result is recorded or the
\* weights add up to zero.
C1_FileScore ==
    SingleDone =>
        /\ analysis.FilesAnalyzed[1].FileScore
               = StatedFileScore(fileResult.MetricResults)
        /\ GetOverallScore(fileResult.MetricResults)
               = StatedFileScore(fileResult.MetricResults)

\* a file with several recorded metric results of different weights whose
\* score lies strictly between 0 and 1
C1_Witness ==
    /\ SingleDone
    /\ Cardinality(DOMAIN fileResult.MetricResults) = 7
    /\ WeightTotal(fileResult.MetricResults) = <<23, 20>>
    /\ RLt(RZero, analysis.FilesAnalyzed[1].FileScore)
    /\ RLt(analysis.FilesAnalyzed[1].FileScore, ROne)
    /\ \E n \in DOMAIN fileResult.MetricResults :
           fileResult.MetricResults[n].Score
               # analysis.FilesAnalyzed[1].FileScore

\* C2: the project score is the plain mean of the file scores of the files
\* that were analysed, each counted once whatever its line count, and with
\* one analysed file it is that file's score.
C2_ProjectScore ==
    pc = "done" =>
        /\ Len(analysis.FilesAnalyzed) = Cardinality(OkFiles)
        /\ \A k \in 1..Len(analysis.FilesAnalyzed) :
               \E i \in OkFiles :
                   /\ files[i].FilePath = analysis.FilesAnalyzed[k].FilePath
                   /\ analysis.FilesAnalyzed[k].FileScore
                          = GetOverallScore(
                                AnalyzeFile(metrics, files[i]).MetricResults)
        /\ Len(analysis.FilesAnalyzed) > 0 =>
               RMul(analysis.CodeQualityScore, R(Len(analysis.FilesAnalyzed)))
                   = RSumSeq([k \in 1..Len(analysis.FilesAnalyzed) |->
                                 analysis.FilesAnalyzed[k].FileScore])
        /\ Len(analysis.FilesAnalyzed) = 1 =>
               analysis.CodeQualityScore = analysis.FilesAnalyzed[1].FileScore

\* a directory run over two analysed files of different length and score
C2_Witness ==
    /\ DirDone
    /\ Len(results) = 2
    /\ results[1].TotalLines # results[2].TotalLines
    /\ analysis.FilesAnalyzed[1].FileScore # analysis.FilesAnalyzed[2].FileScore

\* is the metric applicable to the language, as the specification states it
Applicable(metric, language) ==
    metric.SupportedLanguages = {} \/ language \in metric.SupportedLanguages

\* C3: a metric with an empty set of supported languages is applied to a
\* file of any language; a metric whose set is not empty and lacks the
\* language of the file adds no entry to the metric results of the file, so
\* that neither its score nor its weight is in the weighted sum.
C3_LanguageFilter ==
    SingleDone =>
        /\ \A k \in 1..Len(metrics) :
               /\ metrics[k].SupportedLanguages = {} =>
                      metrics[k].Name \in DOMAIN fileResult.MetricResults
               /\ (/\ metrics[k].SupportedLanguages # {}
                   /\ fileResult.Language \notin metrics[k].SupportedLanguages)
                      => metrics[k].Name \notin DOMAIN fileResult.MetricResults
        /\ WeightTotal(fileResult.MetricResults)
               = RSumSeq([k \in 1..Len(metrics) |->
                             IF Applicable(metrics[k], fileResult.Language)
                             THEN metrics[k].Weight ELSE RZero])
        /\ WeightedTotal(fileResult.MetricResults)
               = RSumSeq([k \in 1..Len(metrics) |->
                             IF Applicable(metrics[k], fileResult.Language)
                             THEN RMul(MetricAnalyze(metrics[k],
                                                     files[1].Parse).Score,
                                       metrics[k].Weight)
                             ELSE RZero])

\* a file for which one metric with an empty set is applied and another
\* metric, whose set lacks the language of the file, is left out
C3_Witness ==
    /\ SingleDone
    /\ \E k \in 1..Len(metrics) :
           /\ metrics[k].SupportedLanguages = {}
           /\ metrics[k].Name \in DOMAIN fileResult.MetricResults
    /\ \E k \in 1..Len(metrics) :
           /\ metrics[k].SupportedLanguages # {}
           /\ fileResult.Language \notin metrics[k].SupportedLanguages
           /\ metrics[k].Name \notin DOMAIN fileResult.MetricResults

\* C4: every metric returns a score within 0..1 for every parse result,
\* also for one with no function and no line.
C4_ScoreRange ==
    target = "file" =>
        /\ \A k \in 1..Len(metrics) :
               InUnit(MetricAnalyze(metrics[k], files[1].Parse).Score)
        /\ pc = "done" =>
               \A n \in DOMAIN fileResult.MetricResults :
                   InUnit(fileResult.MetricResults[n].Score)

\* an analysed file of no line and no function with a result of each metric
C4_Witness ==
    /\ SingleDone
    /\ files[1].Parse.TotalLines = 0
    /\ files[1].Parse.Functions = <<>>
    /\ Cardinality(DOMAIN fileResult.MetricResults) = 7

\* C5: a file whose analysis fails is logged and nothing more: the other
\* files are analysed and returned, and the failed file is in no count, no
\* line total and no mean of the project result.
C5_FailureIsolated ==
    DirDone =>
        /\ Len(results) = Cardinality(OkFiles)
        /\ {results[k].FilePath : k \in 1..Len(results)}
               = {files[i].FilePath : i \in OkFiles}
        /\ Len(logged) = N - Cardinality(OkFiles)
        /\ {logged[k].FilePath : k \in 1..Len(logged)}
               = {files[i].FilePath : i \in (1..N) \ OkFiles}
        /\ analysis.TotalFiles = Cardinality(OkFiles)
        /\ Len(analysis.FilesAnalyzed) = Cardinality(OkFiles)
        /\ analysis.TotalLines
               = SumSeq([i \in 1..N |-> IF i \in OkFiles
                                        THEN files[i].Parse.TotalLines ELSE 0])
        /\ OkFiles # {} =>
               RMul(analysis.CodeQualityScore, R(Cardinality(OkFiles)))
                   = SumAt(OkFiles, LAMBDA i :
                         GetOverallScore(
                             ApplyMetrics(metrics, 1, files[i].Parse, EmptyMap)))
        /\ \A name \in DOMAIN analysis.Metrics :
               RMul(analysis.Metrics[name].Score, R(Cardinality(OkFiles)))
                   = SumAt(OkFiles, LAMBDA i :
                         ApplyMetrics(metrics, 1, files[i].Parse,
                                      EmptyMap)[name].Score)

\* a directory run in which one file failed and two were analysed
C5_Witness ==
    /\ DirDone
    /\ Len(logged) = 1
    /\ Len(results) = 2
    /\ analysis.TotalFiles = 2

\* C6: a second run over the same files of a directory gives the project
\* result of the first run, whatever the order in which the workers finish
\* and whatever the order in which the maps are ranged over.
C6_RerunIdentical ==
    (target = "dir" /\ run > 1 /\ pc = "done") => analysis = prev

\* C7: the number of workers between taking and giving back a slot is never
\* more than the smaller of MaxConcurrency and the number of files.
C7_BoundedWorkers ==
    /\ Cardinality({i \in Workers : wpc[i] = "analyze"})
           <= (IF N < MaxConcurrency THEN N ELSE MaxConcurrency)
    /\ semaphore = Cardinality({i \in Workers : wpc[i] = "analyze"})

\* every slot is taken and a further worker waits for one
C7_Witness ==
    /\ Cardinality({i \in Workers : wpc[i] = "analyze"}) = MaxConcurrency
    /\ \E i \in Workers : wpc[i] = "acquire"

\* C8: under fair scheduling AnalyzeDirectory returns, and when it has
\* returned every worker has finished and every file of the list has given
\* a result or a logged error.
C8_Terminates ==
    <>(/\ pc = "returned"
       /\ \A i \in Workers : wpc[i] = "done"
       /\ Len(results) + Len(logged) = N)

\* a pool run has returned: there were more files than slots
C8_Witness ==
    /\ pc = "returned"
    /\ N > MaxConcurrency
    /\ \A i \in Workers : wpc[i] = "done"
    /\ Len(results) + Len(logged) = N

\* the phase of the coordinator: 0 idle, 1 dispatching, 2 draining, 3 done
Phase(p) ==
    CASE p = "idle" -> 0
      [] p = "dispatch" -> 1
      [] p \in {"wait", "collect", "errors"} -> 2
      [] OTHER -> 3

\* the collection of the results and errors has begun
Collecting == pc \in {"collect", "errors", "returned", "done"}

\* C9: the coordinator goes through the phases idle, dispatching, draining
\* and done in this order and never back; when the collection begins every
\* worker has finished, and no worker is started after that.
C9_Phases ==
    [][/\ Phase(pc') >= Phase(pc)
       /\ target = "dir" =>
              /\ Phase(pc') <= Phase(pc) + 1
              /\ Collecting' =>
                     /\ \A i \in Workers : wpc'[i] = "done"
                     /\ wg' = 0
              /\ Collecting => wpc' = wpc]_vars

\* the collection has begun after a dispatch of several workers
C9_Witness ==
    /\ pc = "collect"
    /\ N >= 2
    /\ Len(results) >= 1
    /\ resultsChan # <<>>

\* C10: a worker that is about to hand over its result or error can do so
\* at once, the channel is not closed at that time, and the run is never
\* stuck before its end.
C10_NonBlockingSend ==
    /\ ~panicked
    /\ \A i \in Workers :
           wpc[i] = "analyze" => (~closed /\ ENABLED AnalyzeAndSend(i))
    /\ closed => \A i \in Workers : wpc[i] = "done"
    /\ pc \notin {"done", "failed"} => ENABLED Next

\* the last of several workers is about to send: every other result and
\* error is in the channels and nothing has been collected
C10_Witness ==
    /\ N >= 2
    /\ \E i \in Workers : wpc[i] = "analyze"
    /\ Len(resultsChan) + Len(errChan) = N - 1
    /\ errChan # <<>>
    /\ resultsChan # <<>>

\* the metric results of the file at position i
ResultsOf(i) == ApplyMetrics(metrics, 1, files[i].Parse, EmptyMap)

\* the analysed files that have a result of the metric name
FilesWith(name) == {i \in OkFiles : name \in DOMAIN ResultsOf(i)}

\* C12: the project result has a row for exactly the metrics that have a
\* result in some analysed file; the score of the row is the mean of the
\* scores of the metric over the files that have a result of it, and its
\* weight is the weight the metric was built with, which is also its weight
\* in every file.
C12_MetricRows ==
    DirDone =>
        /\ DOMAIN analysis.Metrics
               = UNION {DOMAIN ResultsOf(i) : i \in OkFiles}
        /\ \A name \in DOMAIN analysis.Metrics :
               /\ RMul(analysis.Metrics[name].Score,
                       R(Cardinality(FilesWith(name))))
                      = SumAt(FilesWith(name),
                              LAMBDA i : ResultsOf(i)[name].Score)
               /\ \E k \in 1..Len(metrics) :
                      /\ metrics[k].Name = name
                      /\ analysis.Metrics[name].Weight = metrics[k].Weight
               /\ \A i \in FilesWith(name) :
                      ResultsOf(i)[name].Weight = analysis.Metrics[name].Weight

\* three analysed files, a metric with a result in one of them only and a
\* metric whose scores differ between the files
C12_Witness ==
    /\ DirDone
    /\ Len(results) = 3
    /\ \E name \in DOMAIN analysis.Metrics :
           Cardinality(FilesWith(name)) = 1
    /\ \E name \in DOMAIN analysis.Metrics :
           /\ Cardinality(FilesWith(name)) = 3
           /\ \E i, j \in FilesWith(name) :
                  ResultsOf(i)[name].Score # ResultsOf(j)[name].Score

\* C13: a directory run over an empty file list does not fail: no goroutine
\* panics, the run is never stuck before its end, nothing is logged, and
\* the project result has no file, no line, no file entry, no metric row
\* and the score 0.
C13_EmptyList ==
    (target = "dir" /\ N = 0) =>
        /\ ~panicked
        /\ pc \notin {"failed"}
        /\ pc # "done" => ENABLED NextDir
        /\ logged = <<>>
        /\ results = <<>>
        /\ pc = "done" =>
               /\ analysis.TotalFiles = 0
               /\ analysis.TotalLines = 0
               /\ analysis.FilesAnalyzed = <<>>
               /\ DOMAIN analysis.Metrics = {}
               /\ analysis.CodeQualityScore = RZero

\* the run over the empty list has ended with a project result
C13_Witness ==
    /\ DirDone
    /\ N = 0
    /\ analysis.TotalFiles = 0

\* the complexities the cyclomatic metric averages for the analysed file:
\* those of the function declarations of the Go syntax tree if there is
\* one, else those of the functions of the parse result
AveragedComplexities ==
    IF ~IsNil(ExtractGoAST(files[1].Parse))
    THEN [i \in 1..Len(ExtractGoAST(files[1].Parse).FuncDecls) |->
             ExtractGoAST(files[1].Parse).FuncDecls[i].Complexity]
    ELSE [i \in 1..Len(files[1].Parse.Functions) |->
             files[1].Parse.Functions[i].Complexity]

\* the straight line through <<x0, y0>> and <<x1, y1>> at a
Linear(a, x0, y0, x1, y1) ==
    RAdd(y0, RMul(RSub(y1, y0), RDiv(RSub(a, x0), RSub(x1, x0))))

\* the score the specification states for the average complexity a
StatedCyclomaticScore(a) ==
    IF RLe(a, R(5)) THEN RZero
    ELSE IF RLe(a, R(10)) THEN Linear(a, R(5), RZero, R(10), <<1, 2>>)
    ELSE IF RLe(a, R(20)) THEN Linear(a, R(10), <<1, 2>>, R(20), <<4, 5>>)
    ELSE IF RGe(Linear(a, R(20), <<4, 5>>, R(30), ROne), ROne) THEN ROne
    ELSE Linear(a, R(20), <<4, 5>>, R(30), ROne)

CyclomaticScored ==
    /\ SingleDone
    /\ "cyclomatic_complexity" \in DOMAIN fileResult.MetricResults
    /\ Len(AveragedComplexities) > 0

\* C19: the cyclomatic complexity score of a file with functions is the
\* stated piecewise linear function of the average of their complexities
\* (0 up to 5, 0 to 0.5 from 5 to 10, 0.5 to 0.8 from 10 to 20, from 0.8
\* upward above 20 and at most 1), and a file of 5 functions whose
\* complexities average 3 scores exactly 0.
C19_CyclomaticScore ==
    CyclomaticScored =>
        /\ fileResult.MetricResults["cyclomatic_complexity"].Score
               = StatedCyclomaticScore(
                     Frac(SumSeq(AveragedComplexities),
                          Len(AveragedComplexities)))
        /\ (/\ Len(AveragedComplexities) = 5
            /\ SumSeq(AveragedComplexities) = 15)
               => fileResult.MetricResults["cyclomatic_complexity"].Score
                      = RZero

\* the file of 5 functions averaging 3 has been scored
C19_Witness ==
    /\ CyclomaticScored
    /\ Len(AveragedComplexities) = 5
    /\ SumSeq(AveragedComplexities) = 15
    /\ fileResult.MetricResults["cyclomatic_complexity"].Score = RZero

\* the skeleton of a function body: its branch, loop and return nodes
Skeleton(body) ==
    SelectSeq(body, LAMBDA n :
        n \in {"IfStmt", "ForStmt", "RangeStmt", "SwitchStmt", "CaseClause",
               "ReturnStmt"})

\* the file has exactly three functions, all with the same skeleton, which
\* has a branch or a loop and a return
ThreeAlike(file) ==
    /\ Cardinality(FuncDeclsOf(file)) = 3
    /\ \A i, j \in FuncDeclsOf(file) :
           /\ Skeleton(file[i].Body) = Skeleton(file[j].Body)
           /\ Len(Skeleton(file[i].Body)) >= 2
           /\ file[i].Name # file[j].Name \/ i = j

\* C20: for a file of exactly three functions with the same branch, loop
\* and return skeleton the duplication metric counts at least two of the
\* three functions as duplicates (a ratio of at least 2/3) and returns at
\* least one issue that names a group of duplicates.
C20_DuplicatesFlagged ==
    (target = "duplication" /\ output # Nil /\ ThreeAlike(input)) =>
        /\ 3 * output.duplicatedCount >= 2 * output.totalFunctions
        /\ Len(output.Issues) >= 1


\* Parse has returned for the content of the state
ParseDone == target = "parse" /\ output # Nil

\* Parse has returned a parse result
ParseOk == ParseDone /\ output.err = NULL

\* C11: whatever the content, Parse returns a parse result and no error,
\* and AnalyzeFile does not fail on the file.
C11_ParseNeverFails ==
    ParseDone => (output.err = NULL /\ fileResult.err = NULL)

\* C14: in every parse result the number of comment lines lies between 0
\* and the number of lines.
C14_CommentLines ==
    ParseOk =>
        /\ 0 <= output.Result.CommentLines
        /\ output.Result.CommentLines <= output.Result.TotalLines

DecisionWords(in) ==
    IF in.Parser = "CParser" THEN CParser_keywords
    ELSE IF in.Parser = "JavaParser"
        THEN <<"if", "for", "while", "catch", "case">>
    ELSE IF in.Parser = "PythonParser" THEN PythonParser_complexityKeywords
    ELSE GenericParser_keywords(in.Language)

\* a keyword made of letters, as opposed to an operator
IsKeyword(word) == \A i \in 1..Len(word) : IsWord(Chars(word)[i])

\* the occurrences of a decision keyword or operator in a line: a keyword
\* counts where it is a word of its own, an operator wherever it stands
Occurrences(line, word) ==
    IF IsKeyword(word)
    THEN Cardinality({p \in 1..Len(line) :
             /\ OccursAt(line, Chars(word), p)
             /\ ~(p > 1 /\ IsWord(line[p - 1]))
             /\ ~(p + Len(word) <= Len(line) /\ IsWord(line[p + Len(word)]))})
    ELSE Count(line, word)

\* the occurrences of all decision keywords and operators in the lines
\* first..last of the content of the state
DecisionsIn(first, last) ==
    LET lines == SplitLines(Chars(input.Content))
        words == DecisionWords(input)
    IN  SumSeq([k \in 1..(last - first + 1) |->
                   SumSeq([w \in 1..Len(words) |->
                              Occurrences(lines[first + k - 1], words[w])])])

\* the function i of the parse result has no decision point: for a Go
\* function no node below its declaration is a branch, a loop, a case or a
\* short-circuit operator, for any other function none of its lines holds
\* a decision keyword or operator
DecisionFree(i) ==
    IF input.Parser = "GoParser"
    THEN \A n \in 1..Len(input.Tree.FuncDecls[i].Nodes) :
             input.Tree.FuncDecls[i].Nodes[n]
                 \notin {"IfStmt", "ForStmt", "RangeStmt", "SwitchStmt",
                         "TypeSwitchStmt", "SelectStmt", "CaseClause",
                         "CommClause", "&&", "||"}
    ELSE DecisionsIn(output.Result.Functions[i].StartLine,
                     output.Result.Functions[i].EndLine) = 0

\* C16: a function without decision point has complexity 1, whatever else
\* the file holds.
C16_DecisionFreeIsOne ==
    ParseOk =>
        \A i \in 1..Len(output.Result.Functions) :
            DecisionFree(i) => output.Result.Functions[i].Complexity = 1

\* the functions of the parse result were recovered by a heuristic
Heuristic ==
    \/ input.Parser \in {"CParser", "JavaParser", "GenericParser"}
    \/ input.Parser = "PythonParser" /\ input.Tree = Rejected

\* C17: the complexity of a function recovered by a heuristic is 1 plus the
\* number of decision keywords and operators of its text, each occurrence
\* adding 1: it is at least 1 plus the occurrences on the lines between its
\* first and its last line and at most 1 plus the occurrences on all its
\* lines.
C17_OnePerOccurrence ==
    (ParseOk /\ Heuristic) =>
        \A i \in 1..Len(output.Result.Functions) :
            LET fn == output.Result.Functions[i]
            IN  /\ fn.Complexity
                       >= 1 + DecisionsIn(fn.StartLine + 1, fn.EndLine - 1)
                /\ fn.Complexity
                       <= 1 + DecisionsIn(fn.StartLine, fn.EndLine)

\* the identifier of a content around the position p of one of its
\* characters
IdentifierAt(s, p) ==
    LET first == CHOOSE q \in 1..p :
                     /\ \A r \in q..p : IsWord(s[r])
                     /\ q = 1 \/ ~IsWord(s[q - 1])
        last == CHOOSE q \in p..Len(s) :
                    /\ \A r \in p..q : IsWord(s[r])
                    /\ q = Len(s) \/ ~IsWord(s[q + 1])
    IN  SubSeq(s, first, last)

\* the content with every identifier that is longer than a decision
\* keyword it contains spelled with the letter x only
Neutral(s, words) ==
    [p \in 1..Len(s) |->
        IF /\ IsWord(s[p])
           /\ LET identifier == IdentifierAt(s, p)
              IN  \E w \in 1..Len(words) :
                      /\ IsKeyword(words[w])
                      /\ Contains(identifier, words[w])
                      /\ \A v \in 1..Len(words) :
                             identifier # Chars(words[v])
        THEN "x" ELSE s[p]]

\* C18: a decision keyword inside a longer identifier never increases a
\* complexity estimated from the text: every function has at most the
\* complexity it has when all such identifiers are spelled without the
\* keyword.
C18_IdentifiersDoNotCount ==
    (ParseOk /\ Heuristic) =>
        LET neutral == ParseOf(input, Neutral(Chars(input.Content),
                                              DecisionWords(input)))
        IN  /\ neutral.err = NULL
            /\ Len(neutral.Result.Functions) = Len(output.Result.Functions)
            /\ \A i \in 1..Len(output.Result.Functions) :
                   output.Result.Functions[i].Complexity
                       <= neutral.Result.Functions[i].Complexity


\* the functions fs listed in the order o of their positions
Permuted(fs, o) == [i \in 1..Len(fs) |-> fs[o[i]]]

\* the file of a single file run with its functions listed in the order o
Reordered(o) ==
    [files[1] EXCEPT !.Parse.Functions = Permuted(files[1].Parse.Functions, o)]

\* C21: the score of every metric and the file score do not depend on the
\* order of the functions of the parse result: the analysis of the file
\* with its functions in any other order records the same metrics with the
\* same scores and gives the same file score.
C21_OrderIndependent ==
    (SingleDone /\ files[1].Outcome = "ok") =>
        \A o \in Orders(1..Len(files[1].Parse.Functions)) :
            LET r == AnalyzeFile(metrics, Reordered(o))
            IN  /\ r.err = NULL
                /\ DOMAIN r.MetricResults = DOMAIN fileResult.MetricResults
                /\ \A n \in DOMAIN r.MetricResults :
                       r.MetricResults[n].Score
                           = fileResult.MetricResults[n].Score
                /\ GetOverallScore(r.MetricResults)
                       = analysis.FilesAnalyzed[1].FileScore

\* a file without syntax tree analysed by the metrics of the factory whose
\* two functions differ in length and in complexity, so that the issues
\* depend on their order
C21_Witness ==
    /\ SingleDone
    /\ metrics = CreateAllMetrics
    /\ IsNil(files[1].Parse.ASTRoot)
    /\ Len(files[1].Parse.Functions) = 2
    /\ files[1].Parse.Functions[1].Complexity
           < files[1].Parse.Functions[2].Complexity
    /\ LineCount(files[1].Parse.Functions[1])
           < LineCount(files[1].Parse.Functions[2])
    /\ RGt(fileResult.MetricResults["cyclomatic_complexity"].Score, RZero)
    /\ RGt(fileResult.MetricResults["function_length"].Score, RZero)
    /\ fileResult.MetricResults["function_length"].Issues
           # AnalyzeFile(metrics, Reordered(<<2, 1>>))
                 .MetricResults["function_length"].Issues


\* the entry of a file with a function of high complexity
HasHighComplexity(entry) ==
    \E issue \in entry.Issues : issue[1] = "high_complexity"

\* C22: in the sorted list of a project of five issue free files and five
\* files with a function of high complexity, every file with a function of
\* high complexity comes before every issue free file.
C22_ComplexFilesFirst ==
    (target = "report" /\ output # Nil) =>
        \A i, j \in 1..Len(output) :
            (HasHighComplexity(output[i]) /\ output[j].Issues = {}) => i < j


\* the directories the default patterns are meant to keep out
ExcludedDirectories ==
    {"node_modules", "bower_components", "vendor", "bin", "target", "obj"}

\* the file lies in a directory of one of these names, at any depth
InsideExcluded(file) ==
    \E dir \in DirectoriesOf(Chars(file)) :
        Str(Base(dir)) \in ExcludedDirectories

\* C23: with the default exclude patterns no file that lies inside a
\* node_modules, bower_components, vendor, bin, target or obj directory is
\* returned, at whatever depth the directory lies.
C23_ExcludedDirectories ==
    (target = "find" /\ output # Nil) =>
        \A i \in 1..Len(output.Files) : ~InsideExcluded(output.Files[i])


\* the issues of the comment ratio metric about exported declarations
\* without a doc comment, as <<"func" or "type", name>>
ExportedIssues ==
    LET issues == fileResult.MetricResults["comment_ratio"].Issues
    IN  {<<IF issues[k][1] = "exported_func_no_comment" THEN "func"
           ELSE "type", issues[k][2]>> :
            k \in {j \in 1..Len(issues) :
                      issues[j][1] \in {"exported_func_no_comment",
                                        "exported_type_no_comment"}}}

\* C24: for a Go file analysed by the Go parser and the comment ratio
\* metric, one issue is emitted for every exported function or type
\* without a doc comment, and the score of the metric is the score of the
\* comment ratio alone.
C24_ExportedWithoutComment ==
    (ParseOk /\ input.Parser = "GoParser") =>
        /\ ExportedIssues
               = {input.Tree.Undocumented[k] :
                     k \in 1..Len(input.Tree.Undocumented)}
        /\ fileResult.MetricResults["comment_ratio"].Score
               = CommentCalculateScore(
                     IF output.Result.TotalLines > 0
                     THEN Frac(output.Result.CommentLines,
                               output.Result.TotalLines)
                     ELSE RZero)


\* the nesting depth as stated, of a statement list at the depth depth:
\* the body and the else body of an if, the body of a loop or of a block
\* and the body of a case lie one level deeper, and so does the if that
\* follows an else
RECURSIVE StatedDepth(_, _)
StatedDepth(list, depth) ==
    MaxOf({depth} \cup UNION {
        Bind(list[i], LAMBDA s :
            (IF s.kind \in {"IfStmt", "ForStmt", "RangeStmt", "BlockStmt"}
             THEN {StatedDepth(s.Body, depth + 1)} ELSE {})
              \cup (IF s.Else = <<>> THEN {}
                    ELSE IF s.Else[1].kind = "BlockStmt"
                    THEN {StatedDepth(s.Else[1].Body, depth + 1)}
                    ELSE {StatedDepth(s.Else, depth + 1)})
              \cup {StatedDepth(s.Cases[c], depth + 1) :
                       c \in 1..Len(s.Cases)}) : i \in 1..Len(list)})

\* C25: the nesting depth computed for a function body is the largest
\* depth of its nested statements, every if body, else body, link of an
\* else-if chain, loop body and case body lying one level deeper than the
\* statement it belongs to.
C25_NestingDepth ==
    (target = "nesting" /\ output # Nil /\ input.HasBody) =>
        output.Depth = StatedDepth(input.List, 1)


\* the file without its declared constants
WithoutConstants(file) ==
    [file EXCEPT !.Decls = SelectSeq(file.Decls,
                                     LAMBDA decl : decl.Kind # "const")]

\* every declared constant of the file has an upper snake case or a
\* capitalised camel case name
ConstantsWellNamed(file) ==
    \A i \in 1..Len(file.Decls) :
        file.Decls[i].Kind = "const" =>
            \/ isUpperSnakeCase(Chars(file.Decls[i].Name))
            \/ isPascalCase(Chars(file.Decls[i].Name))

\* C26: a declared constant whose name is upper snake case or capitalised
\* camel case is not counted as a violation and gets no issue: a file
\* whose constants are all named so has the bad names and the issues it
\* has without its constants.
C26_ConstantConvention ==
    (target = "naming" /\ output # Nil /\ ConstantsWellNamed(input)) =>
        /\ output.badNames = analyzeNaming(WithoutConstants(input)).badNames
        /\ output.Issues = analyzeNaming(WithoutConstants(input)).Issues


\* a scan in which a character belongs to exactly one of code, a string
\* literal, a character literal, a line comment and a block comment, and
\* only a character of code opens a literal or a comment or counts as a
\* brace; a backslash inside a literal takes the next character with it
MatchStart == [mode |-> "code", depth |-> 0, skip |-> FALSE, end |-> 0]

MatchStep(content, i, st) ==
    IF st.end # 0 THEN st
    ELSE IF st.skip THEN [st EXCEPT !.skip = FALSE]
    ELSE IF st.mode \in {"string", "char"}
        THEN IF content[i] = "\\" THEN [st EXCEPT !.skip = TRUE]
             ELSE IF content[i] = (IF st.mode = "string" THEN "\"" ELSE "'")
                 THEN [st EXCEPT !.mode = "code"]
             ELSE st
    ELSE IF st.mode = "line"
        THEN IF content[i] = "\n" THEN [st EXCEPT !.mode = "code"] ELSE st
    ELSE IF st.mode = "block"
        THEN IF PairAt(content, i, "*", "/")
             THEN [st EXCEPT !.mode = "code", !.skip = TRUE]
             ELSE st
    ELSE IF content[i] = "\"" THEN [st EXCEPT !.mode = "string"]
    ELSE IF content[i] = "'" THEN [st EXCEPT !.mode = "char"]
    ELSE IF PairAt(content, i, "/", "/") THEN [st EXCEPT !.mode = "line"]
    ELSE IF PairAt(content, i, "/", "*")
        THEN [st EXCEPT !.mode = "block", !.skip = TRUE]
    ELSE IF content[i] = "{" THEN [st EXCEPT !.depth = @ + 1]
    ELSE IF content[i] = "}" /\ st.depth > 0
        THEN IF st.depth = 1 THEN [st EXCEPT !.end = i]
             ELSE [st EXCEPT !.depth = @ - 1]
    ELSE st

RECURSIVE MatchRun(_, _, _, _)
MatchRun(content, lo, hi, st) ==
    IF lo > hi THEN st
    ELSE IF lo = hi THEN MatchStep(content, lo, st)
    ELSE Bind(MatchRun(content, lo, (lo + hi) \div 2, st), LAMBDA half :
        MatchRun(content, (lo + hi) \div 2 + 1, hi, half))

\* the line of the brace that closes the first block of a content
MatchingLine(content) ==
    Bind(MatchRun(content, 1, Len(content), MatchStart).end, LAMBDA i :
        1 + Cardinality({j \in 1..i : content[j] = "\n"}))

\* C27: braces, quotes and apostrophes inside a string literal, a
\* character literal or a comment do not change what the scan of
\* findBlockEnd tracks: the end line it returns is the line of the brace
\* that closes the block of the function.
C27_LiteralsAndComments ==
    (target = "block" /\ output # Nil) =>
        output.EndLine = MatchingLine(Chars(input.Content))


\* how many entries of a sequence of file results are about the file at
\* position i
OutcomesIn(seq, i) ==
    Cardinality({k \in 1..Len(seq) : seq[k].FilePath = files[i].FilePath})

\* C28: every file of the list is analysed once and gives one outcome, a
\* result or an error and never both: a worker that has finished has left
\* exactly one result or error, a worker that has not has left none, and
\* when AnalyzeDirectory has returned every file has one entry among the
\* results and the logged errors, which together are as many as the files.
C28_OneOutcomePerFile ==
    (target = "dir" /\ pc # "idle") =>
        /\ \A i \in Workers :
               OutcomesIn(resultsChan, i) + OutcomesIn(results, i)
                       + OutcomesIn(errChan, i) + OutcomesIn(logged, i)
                   = (IF wpc[i] = "done" THEN 1 ELSE 0)
        /\ pc \in {"returned", "done"} =>
               /\ \A i \in Workers :
                      OutcomesIn(results, i) + OutcomesIn(logged, i) = 1
               /\ \A i \in Workers :
                      OutcomesIn(results, i) = 1 <=> files[i].Outcome = "ok"
               /\ Len(results) + Len(logged) = N

\* AnalyzeDirectory has returned for a list of MaxFiles files of which
\* some were analysed and some failed
C28_Witness ==
    /\ target = "dir"
    /\ pc = "returned"
    /\ N = MaxFiles
    /\ results # <<>>
    /\ logged # <<>>
    /\ \A i \in Workers :
           OutcomesIn(results, i) + OutcomesIn(logged, i) = 1


\* C29: a worker that takes a slot gives it back exactly once, whether the
\* analysis of its file fails or succeeds: the step that takes a worker
\* from waiting to analysing takes one slot, the step that ends a worker
\* gives one slot back, no other step changes the slots held, and no slot
\* is held once AnalyzeDirectory has returned.
C29_SlotReleased ==
    [][target = "dir" =>
          /\ \A i \in Workers :
                 (wpc[i] = "acquire" /\ wpc'[i] = "analyze")
                     => semaphore' = semaphore + 1
          /\ \A i \in Workers :
                 (wpc[i] = "analyze" /\ wpc'[i] = "done")
                     => semaphore' = semaphore - 1
          /\ \A i \in Workers : wpc[i] = "done" => wpc'[i] = "done"
          /\ wpc' = wpc => semaphore' = semaphore
          /\ pc' \in {"returned", "done"} => semaphore' = 0]_vars

\* AnalyzeDirectory has returned after a worker whose file failed and a
\* worker whose file was analysed have both ended, and no slot is held
C29_Witness ==
    /\ target = "dir"
    /\ pc = "returned"
    /\ semaphore = 0
    /\ \E i, j \in Workers :
           /\ files[i].Outcome # "ok" /\ wpc[i] = "done"
           /\ files[j].Outcome = "ok" /\ wpc[j] = "done"


\* the metrics the factory builds as SimpleMetric
SimpleNames ==
    {"error_handling", "naming_convention", "code_duplication",
     "structure_analysis"}

\* C30: with the metrics of CreateAllMetrics the error handling, naming
\* convention, code duplication and structure analysis metrics give the
\* score 1/2 for every analysed file, and the score of the file is at
\* least 6/23 and at most 17/23, so neither 0 nor 1.
C30_SimpleMetricsBoundScore ==
    (SingleDone /\ metrics = CreateAllMetrics) =>
        /\ SimpleNames \subseteq DOMAIN fileResult.MetricResults
        /\ \A name \in SimpleNames :
               fileResult.MetricResults[name].Score = <<1, 2>>
        /\ RLe(<<6, 23>>, analysis.FilesAnalyzed[1].FileScore)
        /\ RLe(analysis.FilesAnalyzed[1].FileScore, <<17, 23>>)
        /\ analysis.FilesAnalyzed[1].FileScore \notin {RZero, R(1)}
        /\ analysis.CodeQualityScore = analysis.FilesAnalyzed[1].FileScore

\* a file analysed with the metrics of the factory whose three other
\* metrics all give the score 0: its score is 6/23
C30_Witness ==
    /\ SingleDone
    /\ metrics = CreateAllMetrics
    /\ \A name \in DOMAIN fileResult.MetricResults \ SimpleNames :
           fileResult.MetricResults[name].Score = RZero
    /\ analysis.FilesAnalyzed[1].FileScore = <<6, 23>>

====
